---------------------------- MODULE Spec2Model ----------------------------
(***************************************************************************)
(* A model of the nodejs-monolith HTTP pipeline:                           *)
(*   validation (validateBody + Joi schema) -> route handler -> facade ->  *)
(*   use case -> domain entity -> repository -> response.                  *)
(* Numbers are kept in hundredths (Dec(99, 99) is 99.99), JSON strings are *)
(* sequences of one-character strings, so that conversions (Joi's string   *)
(* to number coercion, toLowerCase().includes('not found')) are computed.  *)
(***************************************************************************)
EXTENDS Integers, Sequences, FiniteSets, TLC

VARIABLES
    req,            \* per request slot: the request in flight or its response
    transactions,   \* the transactions table: id -> row
    clients,        \* the clients table: id -> row
    products,       \* the products table: id -> row
    nextId,         \* how many identifiers uuid generation has handed out
    posted,         \* per table and id: the body of the last POST that stored the row
    txn,            \* a Transaction instance driven directly (entity level)
    thrown,         \* what the last direct entity call threw (NoError if nothing)
    call,           \* the last direct entity call
    proc            \* the server process of main.ts: startup, signals, exit

vars == <<req, transactions, clients, products, nextId, posted, txn, thrown, call, proc>>
entityVars == <<txn, thrown, call>>

-----------------------------------------------------------------------------
(* Bounds of the model *)

\* identifiers the uuid generator may hand out in one run
MaxIds == 2
\* request slots (requests that may be in flight together)
MaxSlots == 2

-----------------------------------------------------------------------------
(* JSON values *)

Dec(whole, hundredths) == 100 * whole + hundredths

Num(n) == [t |-> "number", n |-> n, s |-> <<>>]
Str(s) == [t |-> "string", n |-> 0, s |-> s]
Bool(b) == [t |-> "boolean", n |-> IF b THEN 1 ELSE 0, s |-> <<>>]
Undefined == [t |-> "undefined", n |-> 0, s |-> <<>>]
DateValue == [t |-> "date", n |-> 0, s |-> <<>>]

Get(body, key) == IF key \in DOMAIN body THEN body[key] ELSE Undefined

\* Decimal digits, as characters and as values
DigitChars == <<"0", "1", "2", "3", "4", "5", "6", "7", "8", "9">>
IsDigit(c) == \E i \in 1..10 : DigitChars[i] = c
DigitVal(c) == (CHOOSE i \in 1..10 : DigitChars[i] = c) - 1

RECURSIVE DigitsVal(_)
DigitsVal(s) ==
    IF s = <<>> THEN 0
    ELSE 10 * DigitsVal(SubSeq(s, 1, Len(s) - 1)) + DigitVal(s[Len(s)])

AllDigits(s) == Len(s) > 0 /\ \A i \in 1..Len(s) : IsDigit(s[i])

\* Position of the first "." in s, 0 if none
DotPos(s) ==
    IF \E i \in 1..Len(s) : s[i] = "."
    THEN CHOOSE i \in 1..Len(s) : s[i] = "." /\ \A j \in 1..(i - 1) : s[j] # "."
    ELSE 0

\* An unsigned decimal literal "ddd" or "ddd.d" or "ddd.dd"
IsUnsignedLiteral(s) ==
    LET d == DotPos(s) IN
    IF d = 0 THEN AllDigits(s)
    ELSE /\ AllDigits(SubSeq(s, 1, d - 1))
         /\ AllDigits(SubSeq(s, d + 1, Len(s)))
         /\ Len(s) - d <= 2

UnsignedVal(s) ==
    LET d == DotPos(s) IN
    IF d = 0 THEN Dec(DigitsVal(s), 0)
    ELSE LET frac == SubSeq(s, d + 1, Len(s)) IN
         Dec(DigitsVal(SubSeq(s, 1, d - 1)),
             IF Len(frac) = 1 THEN 10 * DigitsVal(frac) ELSE DigitsVal(frac))

\* Joi's number coercion of a string: a decimal literal with an optional sign
IsNumericString(s) ==
    /\ Len(s) > 0
    /\ IF s[1] \in {"-", "+"} THEN IsUnsignedLiteral(Tail(s)) ELSE IsUnsignedLiteral(s)

StringToNumber(s) ==
    IF s[1] = "-" THEN 0 - UnsignedVal(Tail(s))
    ELSE IF s[1] = "+" THEN UnsignedVal(Tail(s))
    ELSE UnsignedVal(s)

-----------------------------------------------------------------------------
(* Text *)

RECURSIVE Concat(_)
Concat(seqs) == IF seqs = <<>> THEN <<>> ELSE Head(seqs) \o Concat(Tail(seqs))

RECURSIVE Join(_, _)
Join(texts, sep) ==
    IF texts = <<>> THEN <<>>
    ELSE IF Len(texts) = 1 THEN texts[1]
    ELSE texts[1] \o sep \o Join(Tail(texts), sep)

UpperChars == <<"A", "B", "C", "D", "E", "F", "G", "H", "I", "J", "K", "L", "M",
                "N", "O", "P", "Q", "R", "S", "T", "U", "V", "W", "X", "Y", "Z">>
LowerChars == <<"a", "b", "c", "d", "e", "f", "g", "h", "i", "j", "k", "l", "m",
                "n", "o", "p", "q", "r", "s", "t", "u", "v", "w", "x", "y", "z">>

LowerChar(c) ==
    IF \E i \in 1..26 : UpperChars[i] = c
    THEN LowerChars[CHOOSE i \in 1..26 : UpperChars[i] = c]
    ELSE c

\* a slip: the message compared as it is, its case kept
ToLowerCaseKept(s) == s

ToLowerCase(s) == [i \in 1..Len(s) |-> LowerChar(s[i])]

Includes(s, part) ==
    \E i \in 1..(Len(s) - Len(part) + 1) : SubSeq(s, i, i + Len(part) - 1) = part

KeyText(key) ==
    CASE key = "orderId" -> <<"o", "r", "d", "e", "r", "I", "d">>
      [] key = "amount" -> <<"a", "m", "o", "u", "n", "t">>
      [] key = "id" -> <<"i", "d">>
      [] key = "name" -> <<"n", "a", "m", "e">>
      [] key = "email" -> <<"e", "m", "a", "i", "l">>
      [] key = "address" -> <<"a", "d", "d", "r", "e", "s", "s">>
      [] key = "description" -> <<"d", "e", "s", "c", "r", "i", "p", "t", "i", "o", "n">>
      [] key = "purchasePrice" -> <<"p", "u", "r", "c", "h", "a", "s", "e", "P", "r", "i", "c", "e">>
      [] key = "stock" -> <<"s", "t", "o", "c", "k">>
      [] OTHER -> <<"e", "x", "t", "r", "a">>

-----------------------------------------------------------------------------
(* Joi: the schemas of the routes and schema.validate(body, {abortEarly: false}) *)

StringField(key, required) ==
    [key |-> key, type |-> "string", required |-> required, email |-> FALSE, rules |-> <<>>]
EmailField(key, required) ==
    [key |-> key, type |-> "string", required |-> required, email |-> TRUE, rules |-> <<>>]
NumberField(key, required, rules) ==
    [key |-> key, type |-> "number", required |-> required, email |-> FALSE, rules |-> rules]

\* a slip: amount declared without .positive()
processPaymentSchemaAnyNumber ==
    << StringField("orderId", TRUE),
       NumberField("amount", TRUE, <<>>) >>

processPaymentSchema ==
    << StringField("orderId", TRUE),
       NumberField("amount", TRUE, <<"number.positive">>) >>

createClientSchema ==
    << StringField("id", FALSE),
       StringField("name", TRUE),
       EmailField("email", TRUE),
       StringField("address", TRUE) >>

\* a slip: stock declared without .min(0)
createProductSchemaNoMin ==
    << StringField("id", FALSE),
       StringField("name", TRUE),
       StringField("description", TRUE),
       NumberField("purchasePrice", TRUE, <<"number.positive">>),
       NumberField("stock", TRUE, <<"number.integer">>) >>

createProductSchema ==
    << StringField("id", FALSE),
       StringField("name", TRUE),
       StringField("description", TRUE),
       NumberField("purchasePrice", TRUE, <<"number.positive">>),
       NumberField("stock", TRUE, <<"number.integer", "number.min">>) >>

Detail(key, type) == [key |-> key, type |-> type]

\* Joi's message for one violation: "<key>" followed by the rule's words
MessageTail(type) ==
    CASE type = "any.required" ->
           <<" ", "i", "s", " ", "r", "e", "q", "u", "i", "r", "e", "d">>
      [] type = "string.base" ->
           <<" ", "m", "u", "s", "t", " ", "b", "e", " ", "a", " ", "s", "t", "r", "i", "n", "g">>
      [] type = "string.empty" ->
           <<" ", "i", "s", " ", "n", "o", "t", " ", "a", "l", "l", "o", "w", "e", "d", " ", "t", "o", " ", "b", "e", " ", "e", "m", "p", "t", "y">>
      [] type = "string.email" ->
           <<" ", "m", "u", "s", "t", " ", "b", "e", " ", "a", " ", "v", "a", "l", "i", "d", " ", "e", "m", "a", "i", "l">>
      [] type = "number.base" ->
           <<" ", "m", "u", "s", "t", " ", "b", "e", " ", "a", " ", "n", "u", "m", "b", "e", "r">>
      [] type = "number.positive" ->
           <<" ", "m", "u", "s", "t", " ", "b", "e", " ", "a", " ", "p", "o", "s", "i", "t", "i", "v", "e", " ", "n", "u", "m", "b", "e", "r">>
      [] type = "number.integer" ->
           <<" ", "m", "u", "s", "t", " ", "b", "e", " ", "a", "n", " ", "i", "n", "t", "e", "g", "e", "r">>
      [] type = "number.min" ->
           <<" ", "m", "u", "s", "t", " ", "b", "e", " ", "g", "r", "e", "a", "t", "e", "r", " ", "t", "h", "a", "n", " ", "o", "r", " ", "e", "q", "u", "a", "l", " ", "t", "o", " ", "0">>
      [] OTHER ->
           <<" ", "i", "s", " ", "n", "o", "t", " ", "a", "l", "l", "o", "w", "e", "d">>

Message(d) == <<"\"">> \o KeyText(d.key) \o <<"\"">> \o MessageTail(d.type)

\* Joi.string().email({tlds: {allow: false}}): one "@", a local part, and a
\* domain of at least two non-empty segments
AtCount(s) == Cardinality({i \in 1..Len(s) : s[i] = "@"})
IsEmail(s) ==
    /\ AtCount(s) = 1
    /\ LET at == CHOOSE i \in 1..Len(s) : s[i] = "@"
           domain == SubSeq(s, at + 1, Len(s))
       IN /\ at > 1
          /\ Len(domain) >= 3
          /\ domain[1] # "."
          /\ domain[Len(domain)] # "."
          /\ \E i \in 1..Len(domain) : domain[i] = "."
          /\ \A i \in 1..(Len(domain) - 1) : ~(domain[i] = "." /\ domain[i + 1] = ".")

\* a slip: validation run with convert off, so that only numbers are numbers
NumberCoercesStrict(v) == v.t = "number"

\* The value a Joi.number() key works on: the number itself, or the number a
\* numeric string converts to (convert is on by default)
NumberCoerces(v) == v.t = "number" \/ (v.t = "string" /\ IsNumericString(v.s))
Coerced(v) == IF v.t = "number" THEN v.n ELSE StringToNumber(v.s)

RuleHolds(rule, n) ==
    CASE rule = "number.positive" -> n > 0
      [] rule = "number.integer" -> n % 100 = 0
      [] rule = "number.min" -> n >= 0
      [] OTHER -> TRUE

\* a slip: the rules of a key tried only up to the first one that fails
RECURSIVE RuleErrorsFirstOnly(_, _, _)
RuleErrorsFirstOnly(key, rules, n) ==
    IF rules = <<>> THEN <<>>
    ELSE IF RuleHolds(Head(rules), n) THEN RuleErrorsFirstOnly(key, Tail(rules), n)
    ELSE <<Detail(key, Head(rules))>>

RECURSIVE RuleErrors(_, _, _)
RuleErrors(key, rules, n) ==
    IF rules = <<>> THEN <<>>
    ELSE (IF RuleHolds(Head(rules), n) THEN <<>> ELSE <<Detail(key, Head(rules))>>)
         \o RuleErrors(key, Tail(rules), n)

\* The violations of one declared key
KeyErrors(f, v) ==
    IF v.t = "undefined"
    THEN IF f.required THEN <<Detail(f.key, "any.required")>> ELSE <<>>
    ELSE IF f.type = "string"
    THEN IF v.t # "string" THEN <<Detail(f.key, "string.base")>>
         ELSE IF v.s = <<>> THEN <<Detail(f.key, "string.empty")>>
         ELSE IF f.email /\ ~IsEmail(v.s) THEN <<Detail(f.key, "string.email")>>
         ELSE <<>>
    ELSE IF ~NumberCoerces(v) THEN <<Detail(f.key, "number.base")>>
         ELSE RuleErrors(f.key, f.rules, Coerced(v))

\* The value of one declared key after conversion
KeyValue(f, v) ==
    IF f.type = "number" /\ NumberCoerces(v) THEN Num(Coerced(v)) ELSE v

SchemaKeys(schema) == {schema[i].key : i \in 1..Len(schema)}

RECURSIVE SetToSeq(_)
SetToSeq(S) ==
    IF S = {} THEN <<>>
    ELSE LET x == CHOOSE y \in S : TRUE IN <<x>> \o SetToSeq(S \ {x})

\* a slip: validation run with stripUnknown, so that undeclared keys are dropped
\* without a word
UnknownErrorsStripped(schema, body) == <<>>

\* Keys of the body the schema does not declare: Joi.object() forbids them
UnknownErrors(schema, body) ==
    LET unknown == SetToSeq(DOMAIN body \ SchemaKeys(schema))
    IN [i \in 1..Len(unknown) |-> Detail(unknown[i], "object.unknown")]

\* a slip: abortEarly left at its default, so that only the first violation is
\* reported
SchemaValidateAbortEarly(schema, body) ==
    LET errors == Concat([i \in 1..Len(schema) |->
                            KeyErrors(schema[i], Get(body, schema[i].key))])
                  \o UnknownErrors(schema, body)
        present == {k \in SchemaKeys(schema) : k \in DOMAIN body}
        field(k) == schema[CHOOSE i \in 1..Len(schema) : schema[i].key = k]
    IN [error |-> IF errors = <<>> THEN <<>> ELSE <<Head(errors)>>,
        value |-> [k \in present |-> KeyValue(field(k), body[k])]]

\* schema.validate(body, {abortEarly: false}): every violation, and the value
SchemaValidate(schema, body) ==
    LET errors == Concat([i \in 1..Len(schema) |->
                            KeyErrors(schema[i], Get(body, schema[i].key))])
                  \o UnknownErrors(schema, body)
        present == {k \in SchemaKeys(schema) : k \in DOMAIN body}
        field(k) == schema[CHOOSE i \in 1..Len(schema) : schema[i].key = k]
    IN [error |-> errors,
        value |-> [k \in present |-> KeyValue(field(k), body[k])]]

-----------------------------------------------------------------------------
(* Thrown values and the identifier generator *)

NoError == [kind |-> "none", message |-> <<>>]
Error(message) == [kind |-> "Error", message |-> message]
NonError == [kind |-> "value", message |-> <<>>]

AmountMessage ==
    <<"A", "m", "o", "u", "n", "t", " ", "m", "u", "s", "t", " ", "b", "e", " ",
      "g", "r", "e", "a", "t", "e", "r", " ", "t", "h", "a", "n", " ", "0">>
InternalServerError ==
    <<"I", "n", "t", "e", "r", "n", "a", "l", " ", "s", "e", "r", "v", "e", "r", " ",
      "e", "r", "r", "o", "r">>

\* BaseEntity: an entity built without an id gets a generated uuid. The k-th
\* uuid handed out is modelled as a string no earlier call and no client chose.
GeneratedId(k) == <<"u", "u", "i", "d", "-", DigitChars[k + 1]>>
IsGenerated(id) == Len(id) = 6 /\ SubSeq(id, 1, 5) = <<"u", "u", "i", "d", "-">>

-----------------------------------------------------------------------------
(* payment: the Transaction entity *)

Pending == <<"p", "e", "n", "d", "i", "n", "g">>
Approved == <<"a", "p", "p", "r", "o", "v", "e", "d">>
Declined == <<"d", "e", "c", "l", "i", "n", "e", "d">>

\* amount >= 100 is approved
ApprovalThreshold == 100

NoTxn == [id |-> <<>>, orderId |-> <<>>, amount |-> 0, status |-> <<>>, trail |-> <<>>]

\* a slip: validate() testing amount < 0, which lets zero through
NewTransactionZeroAllowed(props, freshId) ==
    IF props.amount < 0
    THEN [thrown |-> Error(AmountMessage), entity |-> NoTxn]
    ELSE [thrown |-> NoError,
          entity |-> [id |-> IF props.id = <<>> THEN freshId ELSE props.id,
                      orderId |-> props.orderId,
                      amount |-> props.amount,
                      status |-> Pending,
                      trail |-> <<Pending>>]]

\* new Transaction({amount, orderId, id?}): validate() rejects amount <= 0.
\* trail records the statuses the instance has had, oldest first.
NewTransaction(props, freshId) ==
    IF props.amount <= 0
    THEN [thrown |-> Error(AmountMessage), entity |-> NoTxn]
    ELSE [thrown |-> NoError,
          entity |-> [id |-> IF props.id = <<>> THEN freshId ELSE props.id,
                      orderId |-> props.orderId,
                      amount |-> props.amount,
                      status |-> Pending,
                      trail |-> <<Pending>>]]

SetStatus(t, status) ==
    IF t.status = status THEN t
    ELSE [t EXCEPT !.status = status, !.trail = Append(t.trail, status)]

\* a slip: decline() assigning the status whatever it was
TransactionDeclineAlways(t) == SetStatus(t, Declined)

\* approve() and decline() act on a pending transaction
TransactionApprove(t) == IF t.status = Pending THEN SetStatus(t, Approved) ELSE t
TransactionDecline(t) == IF t.status = Pending THEN SetStatus(t, Declined) ELSE t

\* a slip: process() that takes no decision
TransactionProcessSkipped(t) == t

\* process(): approve when amount >= 100, decline otherwise
TransactionProcess(t) ==
    IF t.amount >= Dec(ApprovalThreshold, 0)
    THEN TransactionApprove(t)
    ELSE TransactionDecline(t)

-----------------------------------------------------------------------------
(* payment: repository, use case output, route *)

TransactionRow(t) == [orderId |-> t.orderId, amount |-> t.amount, status |-> t.status]

\* TransactionRepository.save: one row per transaction id
TransactionSave(table, t) ==
    [id \in DOMAIN table \cup {t.id} |-> IF id = t.id THEN TransactionRow(t) ELSE table[id]]

\* ProcessPaymentUseCase's output for the saved transaction
ProcessPaymentOutput(t) ==
    [transactionId |-> Str(t.id),
     orderId |-> Str(t.orderId),
     amount |-> Num(t.amount),
     status |-> Str(t.status),
     createdAt |-> DateValue,
     updatedAt |-> DateValue]

\* a slip: the two status codes the wrong way round
PaymentStatusCodeSwapped(result) == IF result.status = Str(Approved) THEN 422 ELSE 200

\* const statusCode = result.status === 'approved' ? 200 : 422
PaymentStatusCode(result) == IF result.status = Str(Approved) THEN 200 ELSE 422

\* a slip: the message property read whatever was thrown
CatchMessageOfAnything(e) == e.message

\* error instanceof Error ? error.message : 'Internal server error'
CatchMessage(e) == IF e.kind = "Error" THEN e.message ELSE InternalServerError

ErrorBody(message) == [error |-> Str(message)]

\* a slip: the catch answering as the validation stage does
PostCatchStatusClientError(e) == 400

\* the catch of the POST routes: always 500
PostCatchStatus(e) == 500

NotFoundText == <<"n", "o", "t", " ", "f", "o", "u", "n", "d">>

\* a slip: the catch of a GET route never telling 'not found' apart
GetCatchStatusAlways500(e) == 500

\* the catch of the GET /:id routes: 404 when the message includes 'not found'
GetCatchStatus(e) ==
    IF Includes(ToLowerCase(CatchMessage(e)), NotFoundText) THEN 404 ELSE 500

-----------------------------------------------------------------------------
(* Requests *)

Slots == 1..MaxSlots

NoBody == <<>>

Idle ==
    [route |-> "none", body |-> NoBody, id |-> <<>>, pc |-> "idle", status |-> 0,
     resBody |-> NoBody, details |-> <<>>, entity |-> NoTxn, err |-> NoError,
     writes |-> 0, sent |-> NoBody, before |-> <<>>, row |-> <<>>, list |-> <<>>,
     calls |-> 0, responses |-> 0]

\* a slip: the return after the 400 left out, so that next() is reached as well
ValidateOutcomeNoReturn(schema, r) ==
    LET v == SchemaValidate(schema, r.body) IN
    IF v.error # <<>>
    THEN [r EXCEPT !.pc = "handler", !.status = 400, !.details = v.error,
                   !.body = v.value, !.responses = @ + 1]
    ELSE [r EXCEPT !.pc = "handler", !.body = v.value]

\* validateBody: 400 with the joined messages, or req.body = value and next()
ValidateOutcome(schema, r) ==
    LET v == SchemaValidate(schema, r.body) IN
    IF v.error # <<>>
    THEN [r EXCEPT !.pc = "done", !.status = 400, !.details = v.error,
                   !.responses = @ + 1,
                   !.resBody = ErrorBody(Join([i \in 1..Len(v.error) |-> Message(v.error[i])],
                                               <<";", " ">>))]
    ELSE [r EXCEPT !.pc = "handler", !.body = v.value]

RouteSchema(route) ==
    CASE route = "POST /payments" -> processPaymentSchema
      [] route = "POST /clients" -> createClientSchema
      [] OTHER -> createProductSchema

\* res.status(status).json(body): one response written
Respond(r, status, body) ==
    [r EXCEPT !.pc = "done", !.status = status, !.resBody = body, !.responses = @ + 1]

\* the handler awaits a facade operation: one invocation
Called(r) == [r EXCEPT !.calls = @ + 1]

-----------------------------------------------------------------------------
(* Inputs *)

\* A request body: the keys whose value is not undefined
MakeBody(fields) == [k \in {x \in DOMAIN fields : fields[x] # Undefined} |-> fields[k]]

OrderIds == { <<"o", "1">>, <<"o", "2">> }

PaymentOrderIdInputs == {Str(o) : o \in OrderIds} \cup {Undefined, Num(Dec(7, 0))}

PaymentAmountInputs ==
    { Num(Dec(0, 0) - Dec(50, 0)), Num(Dec(0, 0)), Num(Dec(0, 1)), Num(Dec(99, 99)),
      Num(Dec(100, 0)), Num(Dec(150, 0)),
      Str(<<"h", "u", "n", "d", "r", "e", "d">>), Str(<<"1", "5", "0">>),
      Str(<<"-", "5">>), Bool(TRUE), Undefined }

PaymentBodies ==
    { MakeBody([orderId |-> o, amount |-> a]) :
        o \in PaymentOrderIdInputs, a \in PaymentAmountInputs }

-----------------------------------------------------------------------------
(* POST /api/payments *)

PostRoutes == {"POST /payments", "POST /clients", "POST /products"}

Arrive(s, route, body, id) ==
    /\ req[s].pc \in {"idle", "done"}
    /\ req' = [req EXCEPT ![s] =
                 [Idle EXCEPT !.route = route, !.body = body, !.id = id,
                              !.pc = IF route \in PostRoutes THEN "validate" ELSE "handler",
                              !.sent = body,
                              !.before = CASE route = "POST /payments" -> transactions
                                           [] route \in {"POST /clients", "GET /clients/:id"}
                                                -> clients
                                           [] OTHER -> products]]

ArrivePayment(s) ==
    /\ nextId < MaxIds
    /\ \E body \in PaymentBodies : Arrive(s, "POST /payments", body, <<>>)
    /\ UNCHANGED <<transactions, clients, products, nextId, posted, entityVars, proc>>

\* the validateBody middleware in front of the three POST handlers
ValidateBody(s) ==
    /\ req[s].pc = "validate"
    /\ req' = [req EXCEPT ![s] = ValidateOutcome(RouteSchema(req[s].route), req[s])]
    /\ UNCHANGED <<transactions, clients, products, nextId, posted, entityVars, proc>>

\* a slip: the catch swallows the failure and answers as if nothing happened
PostCatchSwallowed(r, e) == Respond([r EXCEPT !.err = e], 200, NoBody)

\* the catch of a POST handler
PostCatch(r, e) ==
    Respond([r EXCEPT !.err = e], PostCatchStatus(e), ErrorBody(CatchMessage(e)))

\* the catch of a GET /:id handler
GetCatch(r, e) ==
    Respond([r EXCEPT !.err = e], GetCatchStatus(e), ErrorBody(CatchMessage(e)))

\* a slip: the amount handed over in whole units, the hundredths dropped
ProcessPaymentInputWholeUnits(body) ==
    [id |-> <<>>, orderId |-> body.orderId.s, amount |-> body.amount.n - (body.amount.n % 100)]

\* a slip: the order's identifier handed over as the transaction's own
ProcessPaymentInputOrderAsId(body) ==
    [id |-> body.orderId.s, orderId |-> body.orderId.s, amount |-> body.amount.n]

\* const { orderId, amount } = req.body; facade.process({ orderId, amount }):
\* no identifier is passed on
ProcessPaymentInput(body) ==
    [id |-> <<>>, orderId |-> body.orderId.s, amount |-> body.amount.n]

\* facade.process -> ProcessPaymentUseCase: new Transaction(...) in 'pending';
\* a throw lands in the route's catch
PaymentConstruct(s) ==
    /\ req[s].pc = "handler"
    /\ req[s].route = "POST /payments"
    /\ LET made == NewTransaction(ProcessPaymentInput(req[s].body), GeneratedId(nextId))
       IN req' = [req EXCEPT ![s] =
                    IF made.thrown.kind # "none"
                    THEN PostCatch(Called(@), made.thrown)
                    ELSE [Called(@) EXCEPT !.pc = "constructed", !.entity = made.entity]]
    /\ nextId' = nextId + 1
    /\ UNCHANGED <<transactions, clients, products, posted, entityVars, proc>>

\* transaction.process()
PaymentProcess(s) ==
    /\ req[s].pc = "constructed"
    /\ req[s].route = "POST /payments"
    /\ req' = [req EXCEPT ![s].entity = TransactionProcess(@), ![s].pc = "decided"]
    /\ UNCHANGED <<transactions, clients, products, nextId, posted, entityVars, proc>>

\* await transactionRepository.save(transaction)
PaymentSave(s) ==
    /\ req[s].pc = "decided"
    /\ req[s].route = "POST /payments"
    /\ transactions' = TransactionSave(transactions, req[s].entity)
    /\ req' = [req EXCEPT ![s].writes = @ + 1, ![s].pc = "saved"]
    /\ UNCHANGED <<clients, products, nextId, posted, entityVars, proc>>

\* a slip: result kept in a variable of the module, which the requests in
\* flight share: the response is written from whichever result is held
PaymentRespondShared(s) ==
    /\ req[s].pc = "saved"
    /\ req[s].route = "POST /payments"
    /\ LET held == CHOOSE t \in Slots : req[t].pc = "saved" /\ req[t].route = "POST /payments"
           result == ProcessPaymentOutput(req[held].entity)
       IN req' = [req EXCEPT ![s] = Respond(@, PaymentStatusCode(result), result)]
    /\ UNCHANGED <<transactions, clients, products, nextId, posted, entityVars, proc>>

\* a slip: the response written without awaiting the write
PaymentRespondUnawaited(s) ==
    /\ req[s].pc \in {"decided", "saved"}
    /\ req[s].route = "POST /payments"
    /\ LET result == ProcessPaymentOutput(req[s].entity)
       IN req' = [req EXCEPT ![s] = Respond(@, PaymentStatusCode(result), result)]
    /\ UNCHANGED <<transactions, clients, products, nextId, posted, entityVars, proc>>

\* res.status(statusCode).json(result)
PaymentRespond(s) ==
    /\ req[s].pc = "saved"
    /\ req[s].route = "POST /payments"
    /\ LET result == ProcessPaymentOutput(req[s].entity)
       IN req' = [req EXCEPT ![s] = Respond(@, PaymentStatusCode(result), result)]
    /\ UNCHANGED <<transactions, clients, products, nextId, posted, entityVars, proc>>

PaymentStep(s) ==
    \/ ArrivePayment(s)
    \/ ValidateBody(s)
    \/ PaymentConstruct(s)
    \/ PaymentProcess(s)
    \/ PaymentSave(s)
    \/ PaymentRespond(s)

\* The route's handler entered on its own, behind the validation stage: a body
\* of the declared types (a string orderId, a number amount) whose ranges
\* nothing has checked
HandlerBodies ==
    { [orderId |-> Str(o), amount |-> a] :
        o \in OrderIds, a \in {x \in PaymentAmountInputs : x.t = "number"} }

EnterPaymentHandler(s) ==
    /\ nextId < MaxIds
    /\ req[s].pc \in {"idle", "done"}
    /\ \E body \in HandlerBodies :
         req' = [req EXCEPT ![s] =
                   [Idle EXCEPT !.route = "POST /payments", !.body = body,
                                !.pc = "handler", !.sent = body, !.before = transactions]]
    /\ UNCHANGED <<transactions, clients, products, nextId, posted, entityVars, proc>>

-----------------------------------------------------------------------------
(* client-adm: POST /api/clients and GET /api/clients/:id *)

ClientNotFound ==
    <<"C", "l", "i", "e", "n", "t", " ", "n", "o", "t", " ", "f", "o", "u", "n", "d">>
ProductNotFound ==
    <<"P", "r", "o", "d", "u", "c", "t", " ", "n", "o", "t", " ", "f", "o", "u", "n", "d">>
UniqueViolation ==
    <<"V", "a", "l", "i", "d", "a", "t", "i", "o", "n", " ", "e", "r", "r", "o", "r">>
ClientCreatedMessage ==
    <<"C", "l", "i", "e", "n", "t", " ", "c", "r", "e", "a", "t", "e", "d", " ",
      "s", "u", "c", "c", "e", "s", "s", "f", "u", "l", "l", "y">>
ProductCreatedMessage ==
    <<"P", "r", "o", "d", "u", "c", "t", " ", "c", "r", "e", "a", "t", "e", "d", " ",
      "s", "u", "c", "c", "e", "s", "s", "f", "u", "l", "l", "y">>

\* a slip: name and address handed over the wrong way round
ClientAddInputSwapped(body) ==
    [id |-> Get(body, "id"), name |-> body.address, email |-> body.email,
     address |-> body.name]

\* a slip: an absent id replaced by a fixed one before the facade is called
ClientAddInputFixedId(body) ==
    [id |-> IF Get(body, "id") = Undefined THEN Str(<<"c", "0">>) ELSE body.id,
     name |-> body.name, email |-> body.email, address |-> body.address]

\* const { id, name, email, address } = req.body; facade.add({ id, name, email, address })
ClientAddInput(body) ==
    [id |-> Get(body, "id"), name |-> body.name, email |-> body.email,
     address |-> body.address]

\* new Client(...): the id given, or a generated one
NewClient(input, freshId) ==
    [id |-> IF input.id = Undefined THEN freshId ELSE input.id.s,
     name |-> input.name.s, email |-> input.email.s, address |-> input.address.s]

ClientRow(c) == [name |-> c.name, email |-> c.email, address |-> c.address]

\* a slip: the UNIQUE constraint on clients.email left out
EmailTakenNever(table, c) == FALSE

\* clients.email is UNIQUE: another row already holds the email
EmailTaken(table, c) == \E id \in DOMAIN table : id # c.id /\ table[id].email = c.email

\* a slip: the table rewritten with the saved row alone
ClientSaveAlone(table, c) == [id \in {c.id} |-> ClientRow(c)]

\* a slip: a row is only inserted, a row already under the id is kept
ClientSaveInsertOnly(table, c) ==
    [id \in DOMAIN table \cup {c.id} |->
        IF id \in DOMAIN table THEN table[id] ELSE ClientRow(c)]

\* ClientRepository: insert-or-replace by id
ClientSave(table, c) ==
    [id \in DOMAIN table \cup {c.id} |-> IF id = c.id THEN ClientRow(c) ELSE table[id]]

\* FindClientUseCase's output
ClientFindOutput(id, row) ==
    [id |-> Str(id), name |-> Str(row.name), email |-> Str(row.email),
     address |-> Str(row.address), createdAt |-> DateValue, updatedAt |-> DateValue]

ArriveClientPost(s, bodies) ==
    /\ nextId < MaxIds
    /\ \E body \in bodies : Arrive(s, "POST /clients", body, <<>>)
    /\ UNCHANGED <<transactions, clients, products, nextId, posted, entityVars, proc>>

ArriveClientGet(s, ids) ==
    /\ \E id \in ids : Arrive(s, "GET /clients/:id", NoBody, id)
    /\ UNCHANGED <<transactions, clients, products, nextId, posted, entityVars, proc>>

\* await facade.add(...): AddClientUseCase builds the Client and the repository
\* writes it; a storage failure lands in the route's catch
ClientAdd(s) ==
    /\ req[s].pc = "handler"
    /\ req[s].route = "POST /clients"
    /\ LET c == NewClient(ClientAddInput(req[s].body), GeneratedId(nextId)) IN
       IF EmailTaken(clients, c)
       THEN /\ req' = [req EXCEPT ![s] = PostCatch([Called(@) EXCEPT !.row = c],
                                                    Error(UniqueViolation))]
            /\ UNCHANGED <<clients, posted>>
       ELSE /\ clients' = ClientSave(clients, c)
            /\ posted' = [posted EXCEPT !.clients =
                            [id \in DOMAIN @ \cup {c.id} |->
                               IF id = c.id THEN req[s].body ELSE @[id]]]
            /\ req' = [req EXCEPT ![s].pc = "saved", ![s].row = c, ![s].writes = @ + 1,
                                  ![s].calls = @ + 1]
    /\ nextId' = IF Get(req[s].body, "id") = Undefined THEN nextId + 1 ELSE nextId
    /\ UNCHANGED <<transactions, products, entityVars, proc>>

\* res.status(201).json({ message: 'Client created successfully' })
ClientCreated(s) ==
    /\ req[s].pc = "saved"
    /\ req[s].route = "POST /clients"
    /\ req' = [req EXCEPT ![s] = Respond(@, 201, [message |-> Str(ClientCreatedMessage)])]
    /\ UNCHANGED <<transactions, clients, products, nextId, posted, entityVars, proc>>

\* await facade.find({ id }): FindClientUseCase reads the row or throws
\* 'Client not found', which lands in the route's catch
ClientFind(s) ==
    /\ req[s].pc = "handler"
    /\ req[s].route = "GET /clients/:id"
    /\ req' = [req EXCEPT ![s] =
                 IF req[s].id \in DOMAIN clients
                 THEN [Called(@) EXCEPT !.pc = "found", !.row = clients[req[s].id]]
                 ELSE GetCatch(Called(@), Error(ClientNotFound))]
    /\ UNCHANGED <<transactions, clients, products, nextId, posted, entityVars, proc>>

\* res.status(200).json(client)
ClientFound(s) ==
    /\ req[s].pc = "found"
    /\ req[s].route = "GET /clients/:id"
    /\ req' = [req EXCEPT ![s] = Respond(@, 200, ClientFindOutput(req[s].id, req[s].row))]
    /\ UNCHANGED <<transactions, clients, products, nextId, posted, entityVars, proc>>

-----------------------------------------------------------------------------
(* product-adm: POST /api/products and GET /api/products/:id/stock;          *)
(* store-catalog: GET /api/catalog/products/:id                              *)

\* a slip: the stock left out of what is handed to the facade
ProductAddInputNoStock(body) ==
    [id |-> Get(body, "id"), name |-> body.name, description |-> body.description,
     purchasePrice |-> body.purchasePrice, stock |-> Num(0)]

\* const { id, name, description, purchasePrice, stock } = req.body;
\* facade.addProduct({ id, name, description, purchasePrice, stock })
ProductAddInput(body) ==
    [id |-> Get(body, "id"), name |-> body.name, description |-> body.description,
     purchasePrice |-> body.purchasePrice, stock |-> body.stock]

\* new Product(...): the id given, or a generated one
NewProduct(input, freshId) ==
    [id |-> IF input.id = Undefined THEN freshId ELSE input.id.s,
     name |-> input.name.s, description |-> input.description.s,
     purchasePrice |-> input.purchasePrice.n, stock |-> input.stock.n]

\* the products row: the administration columns and the catalog's sales_price
ProductRow(p, salesPrice) ==
    [name |-> p.name, description |-> p.description, purchasePrice |-> p.purchasePrice,
     stock |-> p.stock, salesPrice |-> salesPrice]

\* ProductRepository (administration): insert-or-replace by id; sales_price is not
\* a column it writes
ProductSave(table, p) ==
    [id \in DOMAIN table \cup {p.id} |->
       IF id = p.id
       THEN ProductRow(p, IF id \in DOMAIN table THEN table[id].salesPrice ELSE Undefined)
       ELSE table[id]]

\* CheckStockUseCase's output
CheckStockOutput(id, row) == [productId |-> Str(id), stock |-> Num(row.stock)]

\* the catalog's FindProductUseCase output
CatalogFindOutput(id, row) ==
    [id |-> Str(id), name |-> Str(row.name), description |-> Str(row.description),
     salesPrice |-> row.salesPrice]

ArriveProductPost(s, bodies) ==
    /\ nextId < MaxIds
    /\ \E body \in bodies : Arrive(s, "POST /products", body, <<>>)
    /\ UNCHANGED <<transactions, clients, products, nextId, posted, entityVars, proc>>

ArriveStockGet(s, ids) ==
    /\ \E id \in ids : Arrive(s, "GET /products/:id/stock", NoBody, id)
    /\ UNCHANGED <<transactions, clients, products, nextId, posted, entityVars, proc>>

ArriveCatalogGet(s, ids) ==
    /\ \E id \in ids : Arrive(s, "GET /catalog/products/:id", NoBody, id)
    /\ UNCHANGED <<transactions, clients, products, nextId, posted, entityVars, proc>>

\* await facade.addProduct(...): AddProductUseCase builds the Product and the
\* repository writes it
ProductAdd(s) ==
    /\ req[s].pc = "handler"
    /\ req[s].route = "POST /products"
    /\ LET p == NewProduct(ProductAddInput(req[s].body), GeneratedId(nextId)) IN
       /\ products' = ProductSave(products, p)
       /\ posted' = [posted EXCEPT !.products =
                       [id \in DOMAIN @ \cup {p.id} |->
                          IF id = p.id THEN req[s].body ELSE @[id]]]
       /\ req' = [req EXCEPT ![s].pc = "saved", ![s].row = p, ![s].writes = @ + 1,
                             ![s].calls = @ + 1]
    /\ nextId' = IF Get(req[s].body, "id") = Undefined THEN nextId + 1 ELSE nextId
    /\ UNCHANGED <<transactions, clients, entityVars, proc>>

\* res.status(201).json({ message: 'Product created successfully' })
ProductCreated(s) ==
    /\ req[s].pc = "saved"
    /\ req[s].route = "POST /products"
    /\ req' = [req EXCEPT ![s] = Respond(@, 201, [message |-> Str(ProductCreatedMessage)])]
    /\ UNCHANGED <<transactions, clients, products, nextId, posted, entityVars, proc>>

\* await facade.checkStock({ productId: id }) and await facade.find({ id }) of the
\* catalog: the use case reads the row or throws 'Product not found'
ProductLookup(s) ==
    /\ req[s].pc = "handler"
    /\ req[s].route \in {"GET /products/:id/stock", "GET /catalog/products/:id"}
    /\ req' = [req EXCEPT ![s] =
                 IF req[s].id \in DOMAIN products
                 THEN [Called(@) EXCEPT !.pc = "found", !.row = products[req[s].id]]
                 ELSE GetCatch(Called(@), Error(ProductNotFound))]
    /\ UNCHANGED <<transactions, clients, products, nextId, posted, entityVars, proc>>

\* res.status(200).json(result)
StockFound(s) ==
    /\ req[s].pc = "found"
    /\ req[s].route = "GET /products/:id/stock"
    /\ req' = [req EXCEPT ![s] = Respond(@, 200, CheckStockOutput(req[s].id, req[s].row))]
    /\ UNCHANGED <<transactions, clients, products, nextId, posted, entityVars, proc>>

\* res.status(200).json(product)
CatalogFound(s) ==
    /\ req[s].pc = "found"
    /\ req[s].route = "GET /catalog/products/:id"
    /\ req' = [req EXCEPT ![s] = Respond(@, 200, CatalogFindOutput(req[s].id, req[s].row))]
    /\ UNCHANGED <<transactions, clients, products, nextId, posted, entityVars, proc>>

-----------------------------------------------------------------------------
(* store-catalog: GET /api/catalog/products *)

\* a JSON array of n items (the items are kept in the request's list field)
Array(n) == [t |-> "array", n |-> n, s |-> <<>>]

\* productRepository.findAll(): every row of the table, with what it holds
CatalogFindAll(table) ==
    LET ids == SetToSeq(DOMAIN table)
    IN [i \in 1..Len(ids) |->
          [id |-> ids[i], name |-> table[ids[i]].name,
           description |-> table[ids[i]].description,
           purchasePrice |-> table[ids[i]].purchasePrice,
           stock |-> table[ids[i]].stock,
           salesPrice |-> table[ids[i]].salesPrice]]

\* a slip: the products handed out as found, without the projection
FindAllProductsOutputUnprojected(found) ==
    [i \in 1..Len(found) |->
       [id |-> Str(found[i].id), name |-> Str(found[i].name),
        description |-> Str(found[i].description),
        purchasePrice |-> Num(found[i].purchasePrice),
        stock |-> Num(found[i].stock),
        salesPrice |-> found[i].salesPrice]]

\* FindAllProductsUsecase.execute: products.map(product => ({ id, name,
\* description, salesPrice }))
FindAllProductsOutput(found) ==
    [i \in 1..Len(found) |->
       [id |-> Str(found[i].id), name |-> Str(found[i].name),
        description |-> Str(found[i].description),
        salesPrice |-> found[i].salesPrice]]

ArriveCatalogList(s) ==
    /\ Arrive(s, "GET /catalog/products", NoBody, <<>>)
    /\ UNCHANGED <<transactions, clients, products, nextId, posted, entityVars, proc>>

\* const result = await facade.findAll()
CatalogListFind(s) ==
    /\ req[s].pc = "handler"
    /\ req[s].route = "GET /catalog/products"
    /\ req' = [req EXCEPT ![s].pc = "found", ![s].calls = @ + 1,
                          ![s].list = FindAllProductsOutput(CatalogFindAll(products))]
    /\ UNCHANGED <<transactions, clients, products, nextId, posted, entityVars, proc>>

\* a slip: an empty list reported as not found
CatalogListedEmptyAsNotFound(s) ==
    /\ req[s].pc = "found"
    /\ req[s].route = "GET /catalog/products"
    /\ req' = [req EXCEPT ![s] =
                 IF req[s].list = <<>>
                 THEN Respond(@, 404, ErrorBody(ProductNotFound))
                 ELSE Respond(@, 200, [products |-> Array(Len(req[s].list))])]
    /\ UNCHANGED <<transactions, clients, products, nextId, posted, entityVars, proc>>

\* res.status(200).json(result)
CatalogListed(s) ==
    /\ req[s].pc = "found"
    /\ req[s].route = "GET /catalog/products"
    /\ req' = [req EXCEPT ![s] = Respond(@, 200, [products |-> Array(Len(req[s].list))])]
    /\ UNCHANGED <<transactions, clients, products, nextId, posted, entityVars, proc>>

-----------------------------------------------------------------------------
(* Inputs of the client and product modules *)

Ana == <<"A", "n", "a">>
Bob == <<"B", "o", "b">>
AnaEmail == <<"a", "n", "a", "@", "e", "x", "a", "m", "p", "l", "e", ".", "c", "o", "m">>
BobEmail == <<"b", "o", "b", "@", "e", "x", "a", "m", "p", "l", "e", ".", "c", "o", "m">>
NotAnEmail == <<"n", "o", "t", "-", "a", "n", "-", "e", "m", "a", "i", "l">>
Rua1 == <<"R", "u", "a", " ", "1">>
Rua2 == <<"R", "u", "a", " ", "2">>

ClientIds == { <<"c", "1">> }
\* an identifier no request creates
AbsentClientId == <<"c", "2">>

ClientBodies ==
    { MakeBody([id |-> i, name |-> Str(who[1]), email |-> Str(who[2]),
                address |-> Str(who[3])]) :
        i \in {Undefined} \cup {Str(c) : c \in ClientIds},
        who \in { <<Ana, AnaEmail, Rua1>>, <<Bob, BobEmail, Rua2>>,
                  <<Bob, NotAnEmail, Rua2>> } }

ClientGetIds == ClientIds \cup {AbsentClientId, GeneratedId(0)}

Mouse == <<"M", "o", "u", "s", "e">>
Ergonomic == <<"E", "r", "g", "o", "n", "o", "m", "i", "c">>
Keyboard == <<"K", "e", "y", "b", "o", "a", "r", "d">>
Backlit == <<"R", "G", "B">>

ProductIds == { <<"p", "1">> }
AbsentProductId == <<"p", "2">>
SeedProductId == <<"p", "-", "s", "e", "e", "d">>

ProductBodies ==
    { MakeBody([id |-> i, name |-> Str(Mouse), description |-> Str(Ergonomic),
                purchasePrice |-> Num(what[1]), stock |-> Num(what[2])]) :
        i \in {Undefined} \cup {Str(x) : x \in ProductIds},
        what \in { <<Dec(120, 0), Dec(15, 0)>>, <<Dec(19, 99), Dec(0, 0)>>,
                   <<Dec(19, 99), Dec(0, 0) - Dec(1, 0)>> } }

ProductGetIds == ProductIds \cup {AbsentProductId, SeedProductId, GeneratedId(0)}

\* the products table as the database's init script seeds it (one row kept)
SeedProducts ==
    [id \in {SeedProductId} |->
       [name |-> Keyboard, description |-> Backlit, purchasePrice |-> Dec(80, 0),
        stock |-> Dec(75, 0), salesPrice |-> Num(Dec(120, 0))]]

StoreStep(s) ==
    \/ ValidateBody(s)
    \/ ArriveClientPost(s, ClientBodies)
    \/ ArriveClientGet(s, ClientGetIds)
    \/ ClientAdd(s)
    \/ ClientCreated(s)
    \/ ClientFind(s)
    \/ ClientFound(s)
    \/ ArriveProductPost(s, ProductBodies)
    \/ ArriveStockGet(s, ProductGetIds)
    \/ ArriveCatalogGet(s, ProductGetIds)
    \/ ProductAdd(s)
    \/ ProductCreated(s)
    \/ ProductLookup(s)
    \/ StockFound(s)
    \/ CatalogFound(s)
    \/ ArriveCatalogList(s)
    \/ CatalogListFind(s)
    \/ CatalogListed(s)

\* client bodies that meet on an email: Ana and Bob giving the same address of
\* mail under no id, Bob under c1 with that address or with one of his own
SharedEmailBodies ==
    { MakeBody([id |-> who[1], name |-> Str(who[2]), email |-> Str(who[3]),
                address |-> Str(who[4])]) :
        who \in { <<Undefined, Ana, AnaEmail, Rua1>>,
                  <<Undefined, Bob, AnaEmail, Rua2>>,
                  <<Str(<<"c", "1">>), Bob, AnaEmail, Rua2>>,
                  <<Str(<<"c", "1">>), Bob, BobEmail, Rua2>> } }

\* POST /clients, one request per slot, the slots in flight together
ClientPostStep(s) ==
    \/ req[s].pc = "idle" /\ ArriveClientPost(s, SharedEmailBodies)
    \/ ValidateBody(s)
    \/ ClientAdd(s)
    \/ ClientCreated(s)

-----------------------------------------------------------------------------
(* Failures thrown below the route handlers *)

DbConnectionFailed ==
    <<"D", "B", " ", "c", "o", "n", "n", "e", "c", "t", "i", "o", "n", " ",
      "f", "a", "i", "l", "e", "d">>
DbTimeout == <<"D", "B", " ", "t", "i", "m", "e", "o", "u", "t">>
RecordNotFoundUpper ==
    <<"R", "e", "c", "o", "r", "d", " ", "N", "O", "T", " ", "F", "O", "U", "N", "D">>

\* what a facade call may reject with: Errors with a message, or a value that
\* is not an Error (a string, an object)
Failures ==
    { Error(DbConnectionFailed), Error(DbTimeout), Error(RecordNotFoundUpper),
      Error(ClientNotFound), Error(ProductNotFound), NonError }

ByIdRoutes == {"GET /clients/:id", "GET /products/:id/stock", "GET /catalog/products/:id"}

\* the catch of GET /api/catalog/products: always 500
ListCatchStatus(e) == 500

ListCatch(r, e) ==
    Respond([r EXCEPT !.err = e], ListCatchStatus(e), ErrorBody(CatchMessage(e)))

\* the catch that encloses the route's facade call
RouteCatch(r, e) ==
    IF r.route \in PostRoutes THEN PostCatch(r, e)
    ELSE IF r.route \in ByIdRoutes THEN GetCatch(r, e)
    ELSE ListCatch(r, e)

\* the awaited facade call rejects before anything is written
FacadeThrows(s) ==
    /\ req[s].pc = "handler"
    /\ \E e \in Failures : req' = [req EXCEPT ![s] = RouteCatch(Called(@), e)]
    /\ UNCHANGED <<transactions, clients, products, nextId, posted, entityVars, proc>>

\* the awaited facade.process rejects at the repository write: the decided
\* transaction is not stored and the rejection lands in the route's catch
PaymentSaveFails(s) ==
    /\ req[s].pc = "decided"
    /\ req[s].route = "POST /payments"
    /\ \E e \in Failures : req' = [req EXCEPT ![s] = PostCatch(@, e)]
    /\ UNCHANGED <<transactions, clients, products, nextId, posted, entityVars, proc>>

\* the requests the failures are injected into: every endpoint, few bodies
FaultPaymentBodies ==
    { MakeBody([orderId |-> Str(o), amount |-> Num(a)]) :
        o \in OrderIds, a \in {Dec(150, 0), Dec(0, 0)} }
FaultClientBodies == {b \in ClientBodies : "id" \notin DOMAIN b /\ b.name = Str(Ana)}
FaultProductBodies == {b \in ProductBodies : "id" \in DOMAIN b /\ b.stock = Num(0)}

ArrivePaymentFrom(s, bodies) ==
    /\ nextId < MaxIds
    /\ \E body \in bodies : Arrive(s, "POST /payments", body, <<>>)
    /\ UNCHANGED <<transactions, clients, products, nextId, posted, entityVars, proc>>

FaultStep(s) ==
    \/ ValidateBody(s)
    \/ FacadeThrows(s)
    \/ ArrivePaymentFrom(s, FaultPaymentBodies)
    \/ PaymentConstruct(s)
    \/ PaymentProcess(s)
    \/ PaymentSave(s)
    \/ PaymentSaveFails(s)
    \/ PaymentRespond(s)
    \/ ArriveClientPost(s, FaultClientBodies)
    \/ ArriveClientGet(s, {AbsentClientId, GeneratedId(0)})
    \/ ClientAdd(s)
    \/ ClientCreated(s)
    \/ ClientFind(s)
    \/ ClientFound(s)
    \/ ArriveProductPost(s, FaultProductBodies)
    \/ ArriveStockGet(s, ProductIds \cup {AbsentProductId})
    \/ ArriveCatalogGet(s, ProductIds \cup {AbsentProductId})
    \/ ProductAdd(s)
    \/ ProductCreated(s)
    \/ ProductLookup(s)
    \/ StockFound(s)
    \/ CatalogFound(s)
    \/ ArriveCatalogList(s)
    \/ CatalogListFind(s)
    \/ CatalogListed(s)

\* payments in flight together: one order approved, declined and refused by the
\* validation, another order just under the threshold
ConcurrentPaymentBodies ==
    { MakeBody([orderId |-> Str(p[1]), amount |-> Num(p[2])]) :
        p \in { <<<<"o", "1">>, Dec(150, 0)>>, <<<<"o", "1">>, Dec(50, 0)>>,
                <<<<"o", "2">>, Dec(99, 99)>>, <<<<"o", "1">>, Dec(0, 0)>> } }

\* POST /payments, one request per slot, the slots in flight together
ConcurrentPaymentStep(s) ==
    \/ req[s].pc = "idle" /\ ArrivePaymentFrom(s, ConcurrentPaymentBodies)
    \/ ValidateBody(s)
    \/ PaymentConstruct(s)
    \/ PaymentProcess(s)
    \/ PaymentSave(s)
    \/ PaymentRespond(s)

-----------------------------------------------------------------------------
(* Bodies that exercise the validation stage: missing fields, wrong types,    *)
(* values out of range, numeric strings, undeclared fields                    *)

Word == <<"x">>

\* the tuples of field values that depart from a valid tuple in two fields at most
NearValid(tuples, valid) ==
    { g \in tuples :
        \E i, j \in DOMAIN valid : \A k \in DOMAIN valid \ {i, j} : g[k] = valid[k] }

ValidationPaymentBodies ==
    LET orderIds == {Str(<<"o", "1">>), Undefined, Num(Dec(7, 0))}
        amounts == { Num(Dec(150, 0)), Num(Dec(0, 0) - Dec(50, 0)), Num(Dec(0, 0)),
                     Str(<<"1", "5", "0">>), Str(<<"h", "u", "n", "d", "r", "e", "d">>),
                     Bool(TRUE), Undefined }
        extras == {Undefined, Str(Word)}
    IN { MakeBody([orderId |-> g[1], amount |-> g[2], extra |-> g[3]]) :
           g \in orderIds \X amounts \X extras }

\* the last tuple is the test's body with every field of a wrong type
ValidationClientBodies ==
    LET ids == {Undefined, Str(<<"c", "1">>)}
        names == {Str(Ana), Str(<<>>), Num(Dec(42, 0)), Undefined}
        emails == {Str(AnaEmail), Str(NotAnEmail), Num(Dec(42, 0)), Undefined}
        addresses == {Str(Rua1), Bool(TRUE), Undefined}
        extras == {Undefined, Str(Word)}
        valid == <<Undefined, Str(Ana), Str(AnaEmail), Str(Rua1), Undefined>>
    IN { MakeBody([id |-> g[1], name |-> g[2], email |-> g[3], address |-> g[4],
                   extra |-> g[5]]) :
           g \in NearValid(ids \X names \X emails \X addresses \X extras, valid)
                 \cup {<<Undefined, Num(Dec(42, 0)), Num(Dec(42, 0)), Bool(TRUE),
                         Undefined>>} }

ValidationProductBodies ==
    LET names == {Str(Mouse), Num(Dec(1, 0))}
        descriptions == {Str(Ergonomic), Undefined}
        prices == { Num(Dec(19, 99)), Num(Dec(0, 0)), Num(Dec(0, 0) - Dec(5, 0)),
                    Str(<<"1", "5", "0">>),
                    Str(<<"e", "x", "p", "e", "n", "s", "i", "v", "e">>), Bool(FALSE) }
        stocks == { Num(Dec(0, 0)), Num(Dec(15, 0)), Num(Dec(0, 0) - Dec(1, 0)),
                    Num(Dec(1, 50)), Num(Dec(0, 0) - Dec(1, 50)),
                    Str(<<"5">>), Str(<<"m", "a", "n", "y">>) }
        extras == {Undefined, Num(Dec(120, 0))}
        valid == <<Str(Mouse), Str(Ergonomic), Num(Dec(19, 99)), Num(Dec(0, 0)), Undefined>>
    IN { MakeBody([id |-> Str(<<"p", "1">>), name |-> g[1], description |-> g[2],
                   purchasePrice |-> g[3], stock |-> g[4], extra |-> g[5]]) :
           g \in NearValid(names \X descriptions \X prices \X stocks \X extras, valid) }

ValidationStep(s) ==
    \/ ValidateBody(s)
    \/ ArrivePaymentFrom(s, ValidationPaymentBodies)
    \/ PaymentConstruct(s)
    \/ PaymentProcess(s)
    \/ PaymentSave(s)
    \/ PaymentRespond(s)
    \/ ArriveClientPost(s, ValidationClientBodies)
    \/ ClientAdd(s)
    \/ ClientCreated(s)
    \/ ArriveProductPost(s, ValidationProductBodies)
    \/ ProductAdd(s)
    \/ ProductCreated(s)

-----------------------------------------------------------------------------
(* The Transaction entity driven directly, as its unit tests drive it *)

NoCall == [op |-> "none", amount |-> 0]

EntityAmounts ==
    { Dec(0, 0) - Dec(10, 0), Dec(0, 0), Dec(0, 1), Dec(50, 0), Dec(99, 99),
      Dec(100, 0), Dec(100, 50) }
EntityIds == { <<>>, <<"1", "2", "3">> }

EntityNew ==
    /\ nextId < MaxIds
    /\ \E amount \in EntityAmounts, orderId \in OrderIds, id \in EntityIds :
         LET made == NewTransaction([id |-> id, orderId |-> orderId, amount |-> amount],
                                    GeneratedId(nextId))
         IN /\ txn' = made.entity
            /\ thrown' = made.thrown
            /\ call' = [op |-> "new", amount |-> amount]
            /\ nextId' = IF id = <<>> THEN nextId + 1 ELSE nextId
    /\ UNCHANGED <<req, transactions, clients, products, posted, proc>>

EntityCall(op, result) ==
    /\ txn # NoTxn
    /\ txn' = result
    /\ thrown' = NoError
    /\ call' = [op |-> op, amount |-> txn.amount]
    /\ UNCHANGED <<req, transactions, clients, products, nextId, posted, proc>>

EntityApprove == EntityCall("approve", TransactionApprove(txn))
EntityDecline == EntityCall("decline", TransactionDecline(txn))
EntityProcess == EntityCall("process", TransactionProcess(txn))

-----------------------------------------------------------------------------
(* main.ts: startup and shutdown of the server process *)

\* the values of NODE_ENV told apart
Environments == {"test", "development", "production"}

Signals == {"SIGTERM", "SIGINT"}

\* main.ts loaded: the routes mounted and the signal handlers registered,
\* startServer not yet called. phase is where startServer is, closing the
\* signals whose handler awaits sequelize.close(), closed those whose await
\* has returned, log the events of the process in the order they happened.
Loaded(env) ==
    [env |-> env, phase |-> "loaded", listening |-> FALSE, db |-> "open",
     closing |-> {}, closed |-> {}, exited |-> FALSE, code |-> 0, log |-> <<>>]

Logged(p, event) == [p EXCEPT !.log = Append(@, event)]

\* process.exit(code): nothing runs afterwards
Exit(p, code, event) == [Logged(p, event) EXCEPT !.exited = TRUE, !.code = code]

Running == ~proc.exited

Untouched == UNCHANGED <<req, transactions, clients, products, nextId, posted, txn, thrown, call>>

\* startServer() -> connectDatabase() -> await sequelize.authenticate()
StartServer ==
    /\ Running
    /\ proc.phase = "loaded"
    /\ proc' = [Logged(proc, "authenticate") EXCEPT !.phase = "authenticating"]
    /\ Untouched

\* authenticate resolved: sync unless NODE_ENV is 'test', else connectDatabase returns
AuthenticateSucceeds ==
    /\ Running
    /\ proc.phase = "authenticating"
    /\ proc' = IF proc.env # "test"
               THEN [Logged(Logged(proc, "authenticated"), "sync") EXCEPT !.phase = "syncing"]
               ELSE [Logged(proc, "authenticated") EXCEPT !.phase = "connected"]
    /\ Untouched

\* a slip: the catch of connectDatabase logs the error and returns
AuthenticateFailsLogged ==
    /\ Running
    /\ proc.phase = "authenticating"
    /\ proc' = [Logged(proc, "authenticate failed") EXCEPT !.phase = "connected"]
    /\ Untouched

\* authenticate rejected: the catch of connectDatabase, process.exit(1)
AuthenticateFails ==
    /\ Running
    /\ proc.phase = "authenticating"
    /\ proc' = Exit(Logged(proc, "authenticate failed"), 1, "exit by startup")
    /\ Untouched

\* sync resolved: connectDatabase returns
SyncSucceeds ==
    /\ Running
    /\ proc.phase = "syncing"
    /\ proc' = [Logged(proc, "synchronised") EXCEPT !.phase = "connected"]
    /\ Untouched

\* sync rejected: the same catch, process.exit(1)
SyncFails ==
    /\ Running
    /\ proc.phase = "syncing"
    /\ proc' = Exit(Logged(proc, "sync failed"), 1, "exit by startup")
    /\ Untouched

\* app.listen(port, ...) after await connectDatabase()
Listen ==
    /\ Running
    /\ proc.phase = "connected"
    /\ proc' = [Logged(proc, "listen") EXCEPT !.phase = "listening", !.listening = TRUE]
    /\ Untouched

\* process.on(sig): the handler starts and awaits sequelize.close()
SignalReceived(sig) ==
    /\ Running
    /\ sig \notin proc.closing \cup proc.closed
    /\ proc' = [Logged(proc, sig) EXCEPT !.closing = @ \cup {sig},
                                         !.db = IF @ = "closed" THEN @ ELSE "closing"]
    /\ Untouched

\* sequelize.close() of the handler of sig resolves
CloseCompletes(sig) ==
    /\ Running
    /\ sig \in proc.closing
    /\ proc' = [Logged(proc, "closed") EXCEPT !.closing = @ \ {sig},
                                              !.closed = @ \cup {sig}, !.db = "closed"]
    /\ Untouched

\* a slip: sequelize.close() not awaited, process.exit(0) runs at once
HandlerExitsUnawaited(sig) ==
    /\ Running
    /\ sig \in proc.closing \cup proc.closed
    /\ proc' = Exit(proc, 0, "exit by signal")
    /\ Untouched

\* the handler of sig goes on after its await: process.exit(0)
HandlerExits(sig) ==
    /\ Running
    /\ sig \in proc.closed
    /\ proc' = Exit(proc, 0, "exit by signal")
    /\ Untouched

-----------------------------------------------------------------------------
(* Specifications *)

EmptyTable == <<>>
NothingPosted == [clients |-> <<>>, products |-> <<>>]

Init ==
    /\ req = [s \in Slots |-> Idle]
    /\ transactions = EmptyTable
    /\ clients = EmptyTable
    /\ products = EmptyTable
    /\ nextId = 0
    /\ posted = NothingPosted
    /\ txn = NoTxn
    /\ thrown = NoError
    /\ call = NoCall
    /\ proc = Loaded("test")

\* requests to the payment module, one at a time
NextPayment == PaymentStep(1)

SpecPayment == Init /\ [][NextPayment]_vars

\* the payment module, with the handler also entered behind the validation stage
NextPaymentHandler ==
    \/ PaymentStep(1)
    \/ EnterPaymentHandler(1)

SpecPaymentHandler == Init /\ [][NextPaymentHandler]_vars

\* the Transaction entity on its own
NextEntity ==
    \/ EntityNew
    \/ EntityApprove
    \/ EntityDecline
    \/ EntityProcess

SpecEntity == Init /\ [][NextEntity]_vars

\* requests to the client, product and catalog modules, one at a time, over an
\* empty or a seeded products table
InitStore ==
    /\ req = [s \in Slots |-> Idle]
    /\ transactions = EmptyTable
    /\ clients = EmptyTable
    /\ products \in {EmptyTable, SeedProducts}
    /\ nextId = 0
    /\ posted = NothingPosted
    /\ txn = NoTxn
    /\ thrown = NoError
    /\ call = NoCall
    /\ proc = Loaded("test")

NextStore == StoreStep(1)

SpecStore == InitStore /\ [][NextStore]_vars

\* every endpoint, one request at a time, with facade calls that may reject
NextFaults == FaultStep(1)

SpecFaults == InitStore /\ [][NextFaults]_vars

\* the three POST routes fed bodies that exercise the validation stage
NextValidation == ValidationStep(1)

SpecValidation == Init /\ [][NextValidation]_vars

\* the payment module with a repository write that may fail
NextPaymentFaults ==
    \/ PaymentStep(1)
    \/ PaymentSaveFails(1)

SpecPaymentFaults == Init /\ [][NextPaymentFaults]_vars

\* the server process under each NODE_ENV, signals arriving at any moment
InitProcess ==
    /\ req = [s \in Slots |-> Idle]
    /\ transactions = EmptyTable
    /\ clients = EmptyTable
    /\ products = EmptyTable
    /\ nextId = 0
    /\ posted = NothingPosted
    /\ txn = NoTxn
    /\ thrown = NoError
    /\ call = NoCall
    /\ \E env \in Environments : proc = Loaded(env)

NextProcess ==
    \/ StartServer
    \/ AuthenticateSucceeds
    \/ AuthenticateFails
    \/ SyncSucceeds
    \/ SyncFails
    \/ Listen
    \/ \E sig \in Signals : SignalReceived(sig)
    \/ \E sig \in Signals : CloseCompletes(sig)
    \/ \E sig \in Signals : HandlerExits(sig)

SpecProcess == InitProcess /\ [][NextProcess]_vars

\* POST /payments requests in flight together, interleaved at every await
NextConcurrent == \E s \in Slots : ConcurrentPaymentStep(s)

SpecConcurrent == Init /\ [][NextConcurrent]_vars

\* POST /clients requests in flight together, their steps interleaved
NextClients == \E s \in Slots : ClientPostStep(s)

SpecClients == Init /\ [][NextClients]_vars

-----------------------------------------------------------------------------
(* Properties of the payment module *)

PaymentDone(r) == r.route = "POST /payments" /\ r.pc = "done"

\* the request went past validateBody (next() was called)
PassedValidation(r) == r.pc \notin {"idle", "validate"} /\ r.details = <<>>

\* C1: every POST /payments that passes validation is answered 200 with status
\* 'approved' when amount >= 100 (100 included) and 422 with status 'declined'
\* when 0 < amount < 100 (99.99 included).
C1_ThresholdDecidesResponse ==
    \A s \in Slots :
        LET r == req[s] IN
        (PaymentDone(r) /\ PassedValidation(r)) =>
            LET amount == r.body.amount.n IN
            /\ amount >= Dec(100, 0) =>
                 (r.status = 200 /\ Get(r.resBody, "status") = Str(Approved))
            /\ (0 < amount /\ amount < Dec(100, 0)) =>
                 (r.status = 422 /\ Get(r.resBody, "status") = Str(Declined))

\* both sides of the boundary have been answered: a stored approved row of
\* exactly 100 and a 422 for 99.99
C1_Witness ==
    /\ PaymentDone(req[1]) /\ PassedValidation(req[1])
    /\ req[1].body.amount.n = Dec(99, 99)
    /\ req[1].status = 422
    /\ \E id \in DOMAIN transactions :
         transactions[id].amount = Dec(100, 0) /\ transactions[id].status = Approved

\* an amount that is a number <= 0, or that is no number and does not convert
\* to one (a numeric string is converted by Joi.number())
AmountRejected(v) ==
    \/ v.t = "number" /\ v.n <= 0
    \/ v.t = "boolean"
    \/ v.t = "string" /\ ~IsNumericString(v.s)
    \/ v.t = "string" /\ IsNumericString(v.s) /\ StringToNumber(v.s) <= 0

\* C2: a POST /payments whose amount is <= 0 or non-numeric is answered 400 and
\* never reaches persistence: it stops at the validation stage, writes nothing,
\* and the stored transaction rows are those found when it arrived.
C2_InvalidAmountStopsAtValidation ==
    \A s \in Slots :
        LET r == req[s] IN
        (r.route = "POST /payments" /\ r.pc # "idle"
           /\ AmountRejected(Get(r.sent, "amount"))) =>
            /\ r.pc \in {"validate", "done"}
            /\ r.pc = "done" => r.status = 400
            /\ r.writes = 0
            /\ transactions = r.before

\* a zero amount answered 400 while an earlier payment's row is in the table
C2_Witness ==
    /\ PaymentDone(req[1])
    /\ Get(req[1].sent, "amount") = Num(0)
    /\ Get(req[1].sent, "orderId").t = "string"
    /\ req[1].status = 400
    /\ transactions # EmptyTable

\* C3: ProcessPayment writes the transaction exactly once per request and only
\* after the approve/decline decision; the store never holds a 'pending' row.
C3_PersistedOnceAfterDecision ==
    /\ \A id \in DOMAIN transactions : transactions[id].status \in {Approved, Declined}
    /\ \A s \in Slots :
         LET r == req[s] IN
         r.route = "POST /payments" =>
            /\ r.writes <= 1
            /\ r.pc \in {"validate", "handler", "constructed", "decided"} => r.writes = 0
            /\ r.writes = 1 =>
                 /\ r.entity.status \in {Approved, Declined}
                 /\ r.entity.id \in DOMAIN transactions
                 /\ transactions[r.entity.id] = TransactionRow(r.entity)
            /\ (r.pc \in {"saved", "done"} /\ r.entity # NoTxn) => r.writes = 1
            /\ (r.pc = "done" /\ r.status \in {200, 422}) => r.writes = 1

\* a request that has made its one write, of a declined transaction
C3_Witness ==
    /\ req[1].route = "POST /payments"
    /\ req[1].pc = "saved"
    /\ req[1].writes = 1
    /\ req[1].entity.trail = <<Pending, Declined>>
    /\ transactions[req[1].entity.id].status = Declined

-----------------------------------------------------------------------------
(* Properties of the Transaction entity *)

C5_ConstructionRejectsNonPositive ==
    /\ txn # NoTxn => txn.amount > 0
    /\ call.op = "new" =>
         IF call.amount <= 0
         THEN thrown = Error(AmountMessage) /\ txn = NoTxn
         ELSE thrown = NoError /\ txn # NoTxn /\ txn.amount = call.amount
                /\ txn.status = Pending

\* construction with amount 0 has thrown the domain error
C5_Witness ==
    /\ call = [op |-> "new", amount |-> 0]
    /\ thrown = Error(AmountMessage)
    /\ txn = NoTxn

-----------------------------------------------------------------------------
(* Properties of the transport boundary *)

\* a request whose use case threw the Transaction's invariant error
DomainErrorCaught(r) == PaymentDone(r) /\ r.err = Error(AmountMessage)

-----------------------------------------------------------------------------
(* Not found, round trips and generated identifiers (SpecStore) *)

GetRoutes == {"GET /clients/:id", "GET /products/:id/stock", "GET /catalog/products/:id"}

GetDone(r) == r.route \in GetRoutes /\ r.pc = "done"

\* the table a route reads
TableOf(route) == IF route \in {"POST /clients", "GET /clients/:id"} THEN clients ELSE products

\* the answer is { error: <a message containing text, whatever its case> }
HasErrorText(r, text) ==
    /\ DOMAIN r.resBody = {"error"}
    /\ r.resBody.error.t = "string"
    /\ Includes(ToLowerCase(r.resBody.error.s), text)

\* Rows are never removed: an identifier absent from the table the request found
\* is one no operation created.
\* C7: a GET /clients/X, GET /products/X/stock or GET /catalog/products/X for an
\* identifier X that no operation created is answered 404 with an error message
\* containing 'not found', whether or not other rows exist.
C7_NeverCreatedIsNotFound ==
    \A s \in Slots :
        GetDone(req[s]) /\ req[s].id \notin DOMAIN req[s].before
            => /\ req[s].status = 404
               /\ HasErrorText(req[s], NotFoundText)
               /\ req[s].id \notin DOMAIN TableOf(req[s].route)

\* the catalog answering 404 over a table that holds two other rows
C7_Witness ==
    /\ GetDone(req[1])
    /\ req[1].route = "GET /catalog/products/:id"
    /\ req[1].id = AbsentProductId
    /\ req[1].status = 404
    /\ Cardinality(DOMAIN req[1].before) = 2

\* C8: once POST /clients with identifier I, name N, email E and address A has
\* succeeded, GET /clients/I is answered 200 with id = I, name = N, email = E,
\* address = A, and createdAt and updatedAt.
C8_ClientRoundTrip ==
    /\ DOMAIN posted.clients \subseteq DOMAIN clients
    /\ \A s \in Slots :
         LET r == req[s] IN
         GetDone(r) /\ r.route = "GET /clients/:id" /\ r.id \in DOMAIN posted.clients
            => /\ r.status = 200
               /\ DOMAIN r.resBody =
                    {"id", "name", "email", "address", "createdAt", "updatedAt"}
               /\ r.resBody.id = Str(r.id)
               /\ Get(posted.clients[r.id], "id") \in {Undefined, Str(r.id)}
               /\ r.resBody.name = posted.clients[r.id].name
               /\ r.resBody.email = posted.clients[r.id].email
               /\ r.resBody.address = posted.clients[r.id].address
               /\ r.resBody.createdAt = DateValue
               /\ r.resBody.updatedAt = DateValue

C8_Witness ==
    /\ GetDone(req[1])
    /\ req[1].route = "GET /clients/:id"
    /\ req[1].id \in ClientIds
    /\ req[1].status = 200
    /\ req[1].resBody.name = Str(Ana)
    /\ req[1].resBody.address = Str(Rua1)
    /\ Get(posted.clients[req[1].id], "id") = Str(req[1].id)

\* C9: once POST /products with identifier I and stock S has succeeded,
\* GET /products/I/stock is answered 200 with productId = I and stock = S,
\* S = 0 included.
C9_ProductStockRoundTrip ==
    /\ DOMAIN posted.products \subseteq DOMAIN products
    /\ \A s \in Slots :
         LET r == req[s] IN
         GetDone(r) /\ r.route = "GET /products/:id/stock"
                    /\ r.id \in DOMAIN posted.products
            => /\ r.status = 200
               /\ DOMAIN r.resBody = {"productId", "stock"}
               /\ r.resBody.productId = Str(r.id)
               /\ Get(posted.products[r.id], "id") \in {Undefined, Str(r.id)}
               /\ r.resBody.stock = posted.products[r.id].stock

C9_Witness ==
    /\ GetDone(req[1])
    /\ req[1].route = "GET /products/:id/stock"
    /\ req[1].id \in ProductIds
    /\ req[1].status = 200
    /\ req[1].resBody.stock = Num(0)
    /\ posted.products[req[1].id].stock = Num(0)

\* an Add-Client call made without an id that got as far as the use case
IdlessClientAdd(r) ==
    /\ r.route = "POST /clients"
    /\ "id" \notin DOMAIN r.sent
    /\ r.pc \in {"saved", "done"}
    /\ r.details = <<>>

\* C10: every Add-Client call made without an id and not refused by the store is
\* given a generated identifier that no row held before, and adds exactly one
\* row, leaving the earlier rows as they were; so two such calls in sequence
\* leave two distinct rows more.
C10_IdlessAddsMakeDistinctRows ==
    \A s \in Slots :
        LET r == req[s] IN
        IdlessClientAdd(r)
            => IF r.err = NoError
               THEN /\ r.writes = 1
                    /\ IsGenerated(r.row.id)
                    /\ r.row.id \notin DOMAIN r.before
                    /\ DOMAIN clients = DOMAIN r.before \cup {r.row.id}
                    /\ Cardinality(DOMAIN clients) = Cardinality(DOMAIN r.before) + 1
                    /\ \A id \in DOMAIN r.before : clients[id] = r.before[id]
                    /\ clients[r.row.id].email = r.sent.email.s
               ELSE /\ r.writes = 0
                    /\ r.err = Error(UniqueViolation)
                    /\ EmailTaken(r.before, r.row)
                    /\ clients = r.before

\* the second of two id-less calls answered 201: two generated rows
C10_Witness ==
    /\ IdlessClientAdd(req[1])
    /\ req[1].status = 201
    /\ Cardinality({id \in DOMAIN clients : IsGenerated(id)}) = 2
    /\ Cardinality(DOMAIN req[1].before) = 1
    /\ Cardinality(DOMAIN clients) = 2

-----------------------------------------------------------------------------
(* One transaction row per payment (SpecPayment) *)

\* no payment is between validation and its answer
PaymentsSettled == \A s \in Slots : req[s].pc \in {"idle", "validate", "done"}

\* C11: every POST /payments that passes validation adds a row of its own: its
\* identifier is one no earlier row has, the earlier rows stay as they were, and
\* after N such requests the table holds exactly N rows, repeated orderId or
\* amount included.
C11_EachPaymentOwnRow ==
    /\ PaymentsSettled => Cardinality(DOMAIN transactions) = nextId
    /\ \A s \in Slots :
         LET r == req[s] IN
         PaymentDone(r) /\ r.details = <<>>
            => /\ r.writes = 1
               /\ r.entity.id \notin DOMAIN r.before
               /\ DOMAIN transactions = DOMAIN r.before \cup {r.entity.id}
               /\ \A id \in DOMAIN r.before : transactions[id] = r.before[id]
               /\ transactions[r.entity.id].orderId = r.sent.orderId.s

\* the second of two payments for the same order and the same amount
C11_Witness ==
    /\ PaymentDone(req[1])
    /\ req[1].details = <<>>
    /\ Cardinality(DOMAIN transactions) = 2
    /\ \A id \in DOMAIN transactions :
         /\ transactions[id].orderId = req[1].entity.orderId
         /\ transactions[id].amount = Dec(100, 0)

-----------------------------------------------------------------------------
(* Projections (SpecStore) *)

CatalogRoutes == {"GET /catalog/products", "GET /catalog/products/:id"}

Answered(r) == r.pc = "done"

\* C12: no answer of GET /catalog/products or GET /catalog/products/:id holds a
\* purchasePrice field, in the body or in any listed product, and no answer of
\* GET /products/:id/stock holds a salesPrice field, whatever the row holds.
C12_ProjectionsHidePrices ==
    \A s \in Slots :
        LET r == req[s] IN
        /\ Answered(r) /\ r.route \in CatalogRoutes
             => /\ "purchasePrice" \notin DOMAIN r.resBody
                /\ \A i \in 1..Len(r.list) : "purchasePrice" \notin DOMAIN r.list[i]
                /\ r.status = 200 /\ r.route = "GET /catalog/products"
                     => /\ Len(r.list) = Cardinality(DOMAIN products)
                        /\ \A i \in 1..Len(r.list) :
                             DOMAIN r.list[i] = {"id", "name", "description", "salesPrice"}
                /\ r.status = 200 /\ r.route = "GET /catalog/products/:id"
                     => DOMAIN r.resBody = {"id", "name", "description", "salesPrice"}
        /\ Answered(r) /\ r.route = "GET /products/:id/stock"
             => /\ "salesPrice" \notin DOMAIN r.resBody
                /\ r.status = 200 => DOMAIN r.resBody = {"productId", "stock"}

\* the list answered over a row that holds a sales price and a row an
\* administration POST wrote with its purchase price
C12_Witness ==
    /\ Answered(req[1])
    /\ req[1].route = "GET /catalog/products"
    /\ req[1].status = 200
    /\ Len(req[1].list) = 2
    /\ SeedProductId \in DOMAIN products
    /\ \E id \in DOMAIN posted.products : products[id].purchasePrice = Dec(19, 99)

-----------------------------------------------------------------------------
(* Failures (SpecFaults) *)

\* a facade call of the request rejected and the route's catch answered
FailureAnswered(r) == Answered(r) /\ r.err # NoError

\* the failures whose message holds 'not found' in some case
NotFoundFailures ==
    { Error(ClientNotFound), Error(ProductNotFound), Error(RecordNotFoundUpper) }

\* the not-found outcome of a GET-by-identifier endpoint, which is not an
\* unhandled failure
NotFoundOutcome(r) == r.route \in ByIdRoutes /\ r.err \in NotFoundFailures

\* C13: at every endpoint a failure thrown below the handler is answered with
\* body {error: m}, m being the failure's own message for an Error and
\* 'Internal server error' for any other thrown value, and with status 500
\* (the not-found outcome of the GET-by-identifier endpoints apart).
C13_UnhandledFailureIs500 ==
    \A s \in Slots :
        LET r == req[s] IN
        FailureAnswered(r)
            => /\ r.resBody =
                    [error |-> Str(IF r.err.kind = "Error" THEN r.err.message
                                   ELSE InternalServerError)]
               /\ ~NotFoundOutcome(r) => r.status = 500

\* the list endpoint answering a thrown value that is not an Error
C13_Witness ==
    /\ FailureAnswered(req[1])
    /\ req[1].route = "GET /catalog/products"
    /\ req[1].err = NonError
    /\ req[1].status = 500
    /\ req[1].resBody.error = Str(InternalServerError)

\* C14: on GET /clients/:id, GET /products/:id/stock and
\* GET /catalog/products/:id a thrown failure is answered 404 exactly when it is
\* an Error whose message holds 'not found' in any case, and 500 otherwise,
\* every thrown value that is not an Error included.
C14_NotFoundByMessage ==
    \A s \in Slots :
        LET r == req[s] IN
        FailureAnswered(r) /\ r.route \in ByIdRoutes
            => /\ r.err \in Failures
               /\ r.status = IF r.err \in NotFoundFailures THEN 404 ELSE 500

\* a message in upper case answered 404
C14_Witness ==
    /\ FailureAnswered(req[1])
    /\ req[1].route = "GET /products/:id/stock"
    /\ req[1].err = Error(RecordNotFoundUpper)
    /\ req[1].status = 404

-----------------------------------------------------------------------------
(* The validation stage (SpecValidation) *)

\* the request has been through validateBody
Validated(r) == r.route \in PostRoutes /\ r.pc \notin {"idle", "validate"}

\* the stage found a violation in the body sent
ViolationFound(r) == r.details # <<>>

\* the table a POST route writes
WrittenBy(route) ==
    CASE route = "POST /payments" -> transactions
      [] route = "POST /clients" -> clients
      [] OTHER -> products

\* C15: a request whose body the validation stage finds a violation in ends
\* there with 400: no use case has built or stored anything for it; a request
\* with no violation has its body replaced by the normalized payload and goes
\* on to the handler, and is never answered 400. Each request has exactly one
\* of the two outcomes.
C15_ValidationStopsOrForwards ==
    \A s \in Slots :
        LET r == req[s] IN
        Validated(r)
            => IF ViolationFound(r)
               THEN /\ r.pc = "done"
                    /\ r.status = 400
                    /\ DOMAIN r.resBody = {"error"}
                    /\ r.writes = 0
                    /\ r.entity = NoTxn
                    /\ r.row = <<>>
                    /\ WrittenBy(r.route) = r.before
                    /\ r.body = r.sent
               ELSE /\ r.body = SchemaValidate(RouteSchema(r.route), r.sent).value
                    /\ r.pc \in {"handler", "constructed", "decided", "saved", "done"}
                    /\ r.status # 400
                    /\ r.pc = "done" => r.writes = 1 \/ r.err # NoError

\* a body with a violation answered 400 over a table that holds a row, and
\* left as it was
C15_Witness ==
    /\ Validated(req[1])
    /\ ViolationFound(req[1])
    /\ req[1].route = "POST /clients"
    /\ req[1].status = 400
    /\ clients # EmptyTable

\* a numeric string forwarded as a number to the handler, which answered
C15_WitnessForwarded ==
    /\ Validated(req[1])
    /\ ~ViolationFound(req[1])
    /\ req[1].route = "POST /payments"
    /\ req[1].sent.amount = Str(<<"1", "5", "0">>)
    /\ req[1].body.amount = Num(Dec(150, 0))
    /\ req[1].status = 200

\* the answer is 400 with an error text
Rejected(r) ==
    /\ Validated(r)
    /\ r.status = 400
    /\ DOMAIN r.resBody = {"error"}
    /\ r.resBody.error.t = "string"

\* the declared fields of the body sent that violate their own rule
FailingFields(r) ==
    LET schema == RouteSchema(r.route)
    IN {schema[i].key : i \in {j \in 1..Len(schema) :
                                KeyErrors(schema[j], Get(r.sent, schema[j].key)) # <<>>}}

\* "<key>", as a violation message names a field
Quoted(key) == <<"\"">> \o KeyText(key) \o <<"\"">>

\* C16: the 400 error text holds a violation for every field of the payload
\* that violates the schema, however many there are: validation does not stop
\* at the first one.
C16_AllViolationsCollected ==
    \A s \in Slots :
        LET r == req[s] IN
        Validated(r) /\ FailingFields(r) # {}
            => /\ Rejected(r)
               /\ \A k \in FailingFields(r) :
                    /\ Includes(r.resBody.error.s, Quoted(k))
                    /\ \E i \in 1..Len(r.details) :
                         /\ r.details[i].key = k
                         /\ Includes(r.resBody.error.s, Message(r.details[i]))

\* the test's body: name, email and address each of a wrong type
C16_Witness ==
    /\ Rejected(req[1])
    /\ req[1].route = "POST /clients"
    /\ FailingFields(req[1]) = {"name", "email", "address"}
    /\ req[1].sent.address = Bool(TRUE)
    /\ Len(req[1].details) = 3

\* the messages joined into an error text: one more than the '; ' between them
MessagesIn(text) ==
    1 + Cardinality({i \in 1..(Len(text) - 1) : text[i] = ";" /\ text[i + 1] = " "})

\* the fields of the body sent that fail: declared ones that violate their rule
\* and those the schema does not declare
FailedFields(r) ==
    FailingFields(r) \cup (DOMAIN r.sent \ SchemaKeys(RouteSchema(r.route)))

\* the constraints of its schema entry that the value sent for a field breaks:
\* the range rules of a number field when the value is or converts to a number,
\* one constraint (presence, type, format, being declared) in every other case
BrokenConstraints(r, k) ==
    LET schema == RouteSchema(r.route)
        v == Get(r.sent, k)
    IN IF k \notin SchemaKeys(schema) THEN 1
       ELSE LET f == schema[CHOOSE i \in 1..Len(schema) : schema[i].key = k]
            IN IF f.type = "number" /\ NumberCoerces(v)
               THEN Cardinality({i \in 1..Len(f.rules) :
                                   ~RuleHolds(f.rules[i], Coerced(v))})
               ELSE 1

\* the constraints the fields in keys break, all together
RECURSIVE BrokenTotal(_, _)
BrokenTotal(r, keys) ==
    IF keys = {} THEN 0
    ELSE LET k == CHOOSE x \in keys : TRUE
         IN BrokenConstraints(r, k) + BrokenTotal(r, keys \ {k})

\* C17 as stated: the 400 error text joins exactly as many messages as there
\* are failing fields, also when one field breaks several constraints at once.
C17_OneMessagePerFailingField ==
    \A s \in Slots :
        Rejected(req[s])
            => MessagesIn(req[s].resBody.error.s) = Cardinality(FailedFields(req[s]))

\* C17, amended: the 400 error text joins one message per broken constraint:
\* every failing field has at least one message, a field that breaks several
\* of its constraints has one for each, and the number of messages is the
\* number of failing fields exactly when no field breaks more than one.
C17_OneMessagePerBrokenConstraint ==
    \A s \in Slots :
        LET r == req[s]
            text == r.resBody.error.s
        IN Rejected(r)
            => /\ MessagesIn(text) = Len(r.details)
               /\ MessagesIn(text) = BrokenTotal(r, FailedFields(r))
               /\ \A k \in FailedFields(r) :
                    /\ BrokenConstraints(r, k) >= 1
                    /\ Cardinality({i \in 1..Len(r.details) : r.details[i].key = k})
                         = BrokenConstraints(r, k)
               /\ MessagesIn(text) >= Cardinality(FailedFields(r))
               /\ MessagesIn(text) = Cardinality(FailedFields(r))
                    <=> \A k \in FailedFields(r) : BrokenConstraints(r, k) = 1

\* stock = -1.5 alone failing, with two messages
C17_Witness ==
    /\ Rejected(req[1])
    /\ req[1].route = "POST /products"
    /\ req[1].sent.stock = Num(Dec(0, 0) - Dec(1, 50))
    /\ FailedFields(req[1]) = {"stock"}
    /\ MessagesIn(req[1].resBody.error.s) = 2

\* the fields of the body sent that the route's schema does not declare
Undeclared(r) == DOMAIN r.sent \ SchemaKeys(RouteSchema(r.route))

\* every declared field of the body sent satisfies the schema, and the body
\* carries undeclared fields as well
ValidButForUndeclared(r) ==
    Validated(r) /\ FailingFields(r) = {} /\ Undeclared(r) # {}

NotAllowedText == <<" ", "i", "s", " ", "n", "o", "t", " ", "a", "l", "l", "o", "w", "e", "d">>

DeclaredType(route, k) ==
    LET schema == RouteSchema(route)
    IN IF k \in SchemaKeys(schema)
       THEN schema[CHOOSE i \in 1..Len(schema) : schema[i].key = k].type
       ELSE "none"

\* the fields sent with a value of a primitive type other than the declared one
Mistyped(r) ==
    {k \in DOMAIN r.sent :
        /\ DeclaredType(r.route, k) \in {"number", "string"}
        /\ r.sent[k].t \in {"number", "string", "boolean"}
        /\ r.sent[k].t # DeclaredType(r.route, k)}

\* the violation that names a field and the type expected of it
TypeMessage(route, k) ==
    Quoted(k) \o (IF DeclaredType(route, k) = "number"
                  THEN <<" ", "m", "u", "s", "t", " ", "b", "e", " ", "a", " ",
                         "n", "u", "m", "b", "e", "r">>
                  ELSE <<" ", "m", "u", "s", "t", " ", "b", "e", " ", "a", " ",
                         "s", "t", "r", "i", "n", "g">>)

\* C19 as stated: a number field sent a string (a string of digits such as
\* "150" included) or a boolean, and a string field sent a number or a boolean,
\* is reported as a violation naming the field and the expected type, and the
\* answer is 400.
C19_WrongTypeRejected ==
    \A s \in Slots :
        LET r == req[s] IN
        Validated(r)
            => \A k \in Mistyped(r) :
                  /\ Rejected(r)
                  /\ Includes(r.resBody.error.s, TypeMessage(r.route, k))

\* a string that reads as a decimal number
ReadsAsNumber(v) == v.t = "string" /\ IsNumericString(v.s)

\* C19, amended: a number field sent a boolean or a string that does not read
\* as a number, and a string field sent a number or a boolean, is reported as a
\* violation naming the field and the expected type, and the answer is 400. A
\* number field sent a string that reads as a number (such as "150") is not a
\* type violation: the string is converted, the field's range rules are applied
\* to the number, and a payload that passes is forwarded with the number in
\* place of the string.
C19_WrongTypeRejectedUnlessNumeric ==
    \A s \in Slots :
        LET r == req[s] IN
        Validated(r)
            => \A k \in Mistyped(r) :
                  IF ReadsAsNumber(r.sent[k])
                  THEN /\ ~Includes(Get(r.resBody, "error").s, TypeMessage(r.route, k))
                       /\ \A i \in 1..Len(r.details) :
                            r.details[i].key = k => r.details[i].type # "number.base"
                       /\ ~ViolationFound(r)
                            => r.body[k] = Num(StringToNumber(r.sent[k].s))
                  ELSE /\ Rejected(r)
                       /\ Includes(r.resBody.error.s, TypeMessage(r.route, k))

\* amount "150" accepted and answered as the number 150 is
C19_Witness ==
    /\ Validated(req[1])
    /\ req[1].route = "POST /payments"
    /\ Mistyped(req[1]) = {"amount"}
    /\ req[1].sent.amount = Str(<<"1", "5", "0">>)
    /\ req[1].status = 200
    /\ req[1].resBody.amount = Num(Dec(150, 0))

-----------------------------------------------------------------------------
(* The product invariant (SpecValidation) *)

ProductPost(r) == Validated(r) /\ r.route = "POST /products"

\* whole numbers are the multiples of a hundred hundredths
IsInteger(n) == n % 100 = 0

\* the body sent holds a number for the field, and the number is out of range
PriceOutOfRange(r) ==
    Get(r.sent, "purchasePrice").t = "number" /\ r.sent.purchasePrice.n <= 0
StockOutOfRange(r) ==
    /\ Get(r.sent, "stock").t = "number"
    /\ (r.sent.stock.n < 0 \/ ~IsInteger(r.sent.stock.n))

\* C20: every row POST /products has written holds purchasePrice > 0 and a
\* whole stock >= 0; a request with purchasePrice <= 0, a negative stock or a
\* stock that is not whole is answered 400 and leaves the table as it was; a
\* valid request with stock 0 and the decimal purchasePrice 19.99 is answered
\* 201 and its row holds those values.
C20_ProductInvariant ==
    /\ \A id \in DOMAIN products :
         /\ products[id].purchasePrice > 0
         /\ products[id].stock >= 0
         /\ IsInteger(products[id].stock)
    /\ \A s \in Slots :
         LET r == req[s] IN
         ProductPost(r)
            => /\ PriceOutOfRange(r) \/ StockOutOfRange(r)
                    => /\ Rejected(r)
                       /\ r.writes = 0
                       /\ products = r.before
               /\ (/\ FailedFields(r) = {}
                   /\ r.sent.stock = Num(0)
                   /\ r.sent.purchasePrice = Num(Dec(19, 99)))
                    => /\ r.status # 400
                       /\ r.pc = "done"
                            => /\ r.status = 201
                               /\ products[r.row.id].stock = 0
                               /\ products[r.row.id].purchasePrice = Dec(19, 99)

\* stock 0 and purchasePrice 19.99 answered 201 and stored
C20_Witness ==
    /\ ProductPost(req[1])
    /\ req[1].status = 201
    /\ req[1].sent.stock = Num(0)
    /\ req[1].sent.purchasePrice = Num(Dec(19, 99))
    /\ products[req[1].row.id].stock = 0

-----------------------------------------------------------------------------
(* Saving under an identifier already in use (SpecStore) *)

\* a POST /clients or POST /products that named an identifier the table held
\* and that the store accepted
ResavedUnderUsedId(r) ==
    /\ r.route \in {"POST /clients", "POST /products"}
    /\ r.pc \in {"saved", "done"}
    /\ r.details = <<>>
    /\ r.err = NoError
    /\ "id" \in DOMAIN r.sent
    /\ r.sent.id.s \in DOMAIN r.before

-----------------------------------------------------------------------------
(* Email uniqueness (SpecClients) *)

NoTwoRowsShareEmail ==
    \A a \in DOMAIN clients : \A b \in DOMAIN clients :
        a # b => clients[a].email # clients[b].email

\* the handler of slot s is about to call the facade with an email that a row
\* under another identifier holds
EmailHeldByAnother(s) ==
    /\ req[s].route = "POST /clients"
    /\ req[s].pc = "handler"
    /\ \E id \in DOMAIN clients :
          /\ clients[id].email = req[s].body.email.s
          /\ Get(req[s].body, "id") = Undefined \/ id # req[s].body.id.s

\* C22: whatever the order and interleaving of POST /clients requests, no two
\* rows of the clients table ever hold the same email, and a request whose
\* email is held by a row under another identifier fails (500 with an error
\* body) and leaves the table as it was.
C22_EmailUnique ==
    /\ []NoTwoRowsShareEmail
    /\ [][\A s \in Slots :
            (EmailHeldByAnother(s) /\ req'[s] # req[s])
                => /\ clients' = clients
                   /\ req'[s].pc = "done"
                   /\ req'[s].status = 500
                   /\ DOMAIN req'[s].resBody = {"error"}
                   /\ req'[s].writes = 0]_vars

\* two requests that arrived over the empty table with the same email and no
\* id: one was answered 201, the other failed, and one row is stored
C22_Witness ==
    /\ req[1].route = "POST /clients" /\ req[2].route = "POST /clients"
    /\ req[1].pc = "done" /\ req[2].pc = "done"
    /\ req[1].before = EmptyTable /\ req[2].before = EmptyTable
    /\ req[1].sent.email = req[2].sent.email
    /\ {req[1].status, req[2].status} = {201, 500}
    /\ Cardinality(DOMAIN clients) = 1


-----------------------------------------------------------------------------
(* What later requests do to a stored client (SpecStore) *)

\* slot s is in the POST /clients handler with a body that names id
PostsClientNaming(s, id) ==
    /\ req[s].route = "POST /clients"
    /\ req[s].pc = "handler"
    /\ Get(req[s].body, "id") = Str(id)

-----------------------------------------------------------------------------
(* The order of the steps of a payment (SpecPaymentFaults) *)

\* the decided transaction of r is in the table as decided
Stored(r) ==
    /\ r.entity.id \in DOMAIN transactions
    /\ transactions[r.entity.id] = TransactionRow(r.entity)

\* C24: a payment request goes through validation, construction and decision,
\* the write, and the response, in that order: nothing is constructed before
\* the body is validated, nothing is written before the decision, no response
\* is written before the write has completed, a 200 or 422 is only ever sent
\* for a transaction that is stored, and a request whose write failed is
\* answered 500 with nothing stored.
C24_StepsInOrder ==
    \A s \in Slots :
        LET r == req[s] IN
        r.route = "POST /payments" =>
            /\ r.pc = "validate"
                 => r.entity = NoTxn /\ r.calls = 0 /\ r.writes = 0 /\ r.responses = 0
            /\ r.pc = "handler"
                 => /\ r.details = <<>>
                    /\ r.entity = NoTxn /\ r.writes = 0 /\ r.responses = 0
            /\ r.pc = "constructed"
                 => /\ r.entity.status = Pending
                    /\ r.writes = 0 /\ r.responses = 0
            /\ r.pc = "decided"
                 => /\ r.entity.status \in {Approved, Declined}
                    /\ r.writes = 0 /\ r.responses = 0
                    /\ r.entity.id \notin DOMAIN transactions
            /\ r.pc = "saved"
                 => r.writes = 1 /\ Stored(r) /\ r.responses = 0
            /\ r.pc = "done"
                 => /\ r.responses = 1
                    /\ r.status \in {200, 422} => r.writes = 1 /\ Stored(r)
                    /\ (r.entity # NoTxn /\ r.writes = 0)
                          => /\ r.status = 500
                             /\ r.entity.id \notin DOMAIN transactions

\* an approved transaction whose write failed: answered 500, not stored
C24_Witness ==
    /\ PaymentDone(req[1])
    /\ req[1].entity.status = Approved
    /\ req[1].writes = 0
    /\ req[1].err # NoError
    /\ req[1].status = 500
    /\ req[1].entity.id \notin DOMAIN transactions


-----------------------------------------------------------------------------
(* Payments in flight together (SpecConcurrent) *)

\* the status a payload of that amount is decided with
DecidedBy(amount) == IF amount >= ApprovalThreshold * 100 THEN Approved ELSE Declined

\* C25: however the steps of concurrent POST /payments requests interleave,
\* the status code, the body's status, orderId and amount of each answered
\* request follow from its own payload alone, each request stores one row of
\* its own under an identifier no other request has, and the table holds one
\* row per request that wrote, as it would had they run one after another.
C25_RequestsIndependent ==
    /\ Cardinality(DOMAIN transactions) = Cardinality({s \in Slots : req[s].writes = 1})
    /\ \A s \in Slots : \A t \in Slots :
          (s # t /\ req[s].entity # NoTxn /\ req[t].entity # NoTxn)
             => req[s].entity.id # req[t].entity.id
    /\ \A s \in Slots :
          LET r == req[s] IN
          (PaymentDone(r) /\ r.details = <<>>)
             => /\ r.status = IF r.sent.amount.n >= ApprovalThreshold * 100 THEN 200 ELSE 422
                /\ r.resBody.status = Str(DecidedBy(r.sent.amount.n))
                /\ r.resBody.orderId = r.sent.orderId
                /\ r.resBody.amount = r.sent.amount
                /\ r.writes = 1
                /\ r.resBody.transactionId.s \in DOMAIN transactions
                /\ transactions[r.resBody.transactionId.s] =
                       [orderId |-> r.sent.orderId.s, amount |-> r.sent.amount.n,
                        status |-> DecidedBy(r.sent.amount.n)]

\* two payments for the same order that both arrived before either had
\* written: one answered 200, the other 422, each with its row
C25_Witness ==
    /\ PaymentDone(req[1]) /\ PaymentDone(req[2])
    /\ req[1].before = EmptyTable /\ req[2].before = EmptyTable
    /\ req[1].sent.orderId = req[2].sent.orderId
    /\ req[1].status = 422 /\ req[2].status = 200
    /\ Cardinality(DOMAIN transactions) = 2


-----------------------------------------------------------------------------
(* One response, one invocation, no failure hidden (SpecFaults) *)

\* C26: every request is answered exactly once; a request calls its facade
\* operation at most once; a request whose facade call failed is answered with
\* an { error } body and a 4xx or 5xx status, never with a success status, and
\* writes nothing afterwards.
C26_NoRetryNoSwallow ==
    \A s \in Slots :
        LET r == req[s] IN
        /\ r.calls <= 1
        /\ r.responses <= 1
        /\ (r.pc = "done") <=> (r.responses = 1)
        /\ r.pc \in {"idle", "validate", "handler"} => r.calls = 0
        /\ r.err # NoError
             => /\ r.pc = "done"
                /\ r.calls = 1
                /\ DOMAIN r.resBody = {"error"}
                /\ r.status \in {404, 500}
                /\ r.route = "POST /payments" => transactions = r.before
                /\ r.route \in {"POST /clients", "POST /products"}
                      => TableOf(r.route) = r.before

\* a product creation whose facade call rejected: called once, answered once,
\* with 500 and an error body
C26_Witness ==
    /\ req[1].route = "POST /products"
    /\ req[1].pc = "done"
    /\ req[1].err # NoError
    /\ req[1].calls = 1
    /\ req[1].responses = 1
    /\ req[1].status = 500
    /\ products = req[1].before


-----------------------------------------------------------------------------
(* The catalog list (SpecStore) *)

\* the entries of the list that stand for the row under id
EntriesOf(list, id) == {i \in 1..Len(list) : list[i].id = Str(id)}

\* C27: GET /catalog/products is answered 200 with { products: [...] } that
\* holds exactly one entry per stored product row, each entry being the row's
\* id, name, description and salesPrice and nothing else; over an empty table
\* the answer is 200 with an empty array, not 404.
C27_CatalogListsEveryRow ==
    \A s \in Slots :
        LET r == req[s] IN
        (r.route = "GET /catalog/products" /\ r.pc = "done")
            => /\ r.status = 200
               /\ r.resBody = [products |-> Array(Cardinality(DOMAIN products))]
               /\ Len(r.list) = Cardinality(DOMAIN products)
               /\ \A i \in 1..Len(r.list) :
                     DOMAIN r.list[i] = {"id", "name", "description", "salesPrice"}
               /\ \A id \in DOMAIN products :
                     /\ Cardinality(EntriesOf(r.list, id)) = 1
                     /\ \A i \in EntriesOf(r.list, id) :
                           /\ r.list[i].name = Str(products[id].name)
                           /\ r.list[i].description = Str(products[id].description)
                           /\ r.list[i].salesPrice = products[id].salesPrice

\* the list over the seeded row and a row added through POST /products
C27_Witness ==
    /\ req[1].route = "GET /catalog/products"
    /\ req[1].pc = "done"
    /\ req[1].status = 200
    /\ Len(req[1].list) = 2
    /\ SeedProductId \in DOMAIN products

\* the list over the empty table
C27_WitnessEmpty ==
    /\ req[1].route = "GET /catalog/products"
    /\ req[1].pc = "done"
    /\ req[1].status = 200
    /\ products = EmptyTable
    /\ req[1].resBody = [products |-> Array(0)]


-----------------------------------------------------------------------------
(* The payment response and the stored row (SpecPayment) *)

\* the amount a request sent, as the number it denotes
SentAmount(r) ==
    IF r.sent.amount.t = "number" THEN r.sent.amount.n ELSE StringToNumber(r.sent.amount.s)

\* C28: for every POST /payments answered 200 or 422 the table holds a row
\* under the response's transactionId whose status, orderId and amount are
\* those of the response body, and the orderId and amount are the ones the
\* request sent (an amount sent as a numeric string counts as its number).
C28_ResponseIsStoredRow ==
    \A s \in Slots :
        LET r == req[s] IN
        (PaymentDone(r) /\ r.status \in {200, 422})
            => /\ r.resBody.transactionId.t = "string"
               /\ r.resBody.transactionId.s \in DOMAIN transactions
               /\ LET row == transactions[r.resBody.transactionId.s] IN
                  /\ r.resBody.status = Str(row.status)
                  /\ r.resBody.orderId = Str(row.orderId)
                  /\ r.resBody.amount = Num(row.amount)
                  /\ r.resBody.orderId = r.sent.orderId
                  /\ row.amount = SentAmount(r)

\* a declined payment of 99.99 beside an earlier row: answered 422 with the
\* stored row's values
C28_Witness ==
    /\ PaymentDone(req[1])
    /\ req[1].status = 422
    /\ req[1].sent.amount = Num(Dec(99, 99))
    /\ Cardinality(DOMAIN transactions) = 2
    /\ transactions[req[1].resBody.transactionId.s].status = Declined
    /\ transactions[req[1].resBody.transactionId.s].amount = Dec(99, 99)


-----------------------------------------------------------------------------
(* Startup and shutdown (SpecProcess) *)

Happened(event) == \E i \in 1..Len(proc.log) : proc.log[i] = event

\* an event a happened, and before every event b
Precedes(a, b) ==
    \E i \in 1..Len(proc.log) :
        /\ proc.log[i] = a
        /\ \A j \in 1..Len(proc.log) : proc.log[j] = b => i < j

\* C29: the server listens only after authenticate has succeeded and, unless
\* NODE_ENV is 'test', after sync has completed; when authenticate or sync
\* fails the process exits with code 1 and never listens; under NODE_ENV
\* 'test' sync is not called.
C29_StartupOrdered ==
    /\ proc.listening <=> Happened("listen")
    /\ Happened("listen")
         => /\ Precedes("authenticated", "listen")
            /\ proc.env # "test" => Precedes("synchronised", "listen")
    /\ proc.env = "test" => ~Happened("sync") /\ ~Happened("synchronised")
    /\ (Happened("authenticate failed") \/ Happened("sync failed"))
         => /\ proc.exited
            /\ proc.code = 1
            /\ ~proc.listening

\* the server listening in production, after authenticate and sync
C29_Witness ==
    /\ proc.env = "production"
    /\ proc.listening
    /\ proc.log = <<"authenticate", "authenticated", "sync", "synchronised", "listen">>

\* sync failed in development: exit code 1, no listen
C29_WitnessFailed ==
    /\ proc.env = "development"
    /\ Happened("sync failed")
    /\ proc.exited /\ proc.code = 1
    /\ ~proc.listening

\* C30: a signal handler ends the process only after its sequelize.close() has
\* completed, and with exit code 0: whenever the process has exited through a
\* handler, SIGTERM or SIGINT was received, the connection was closed before
\* the exit, and the code is 0.
C30_ClosedBeforeExit ==
    /\ Happened("exit by signal")
         => /\ proc.exited
            /\ proc.code = 0
            /\ proc.db = "closed"
            /\ Precedes("closed", "exit by signal")
            /\ \E sig \in Signals : Precedes(sig, "exit by signal")
    /\ (proc.exited /\ proc.code = 0) => Happened("exit by signal")
    /\ Happened("closed") => \E sig \in Signals : Precedes(sig, "closed")

\* SIGTERM received by the listening server: connection closed, then exit 0
C30_Witness ==
    /\ proc.exited
    /\ proc.code = 0
    /\ proc.db = "closed"
    /\ proc.log = <<"authenticate", "authenticated", "listen", "SIGTERM", "closed",
                    "exit by signal">>

=============================================================================
